---- MODULE Spec2Model ----
(***************************************************************************)
(* Model of the storyboard package: StoryBoard.gen_frames,                 *)
(* StoryBoard._gen_bare_storyboard, create_thumbnail, tile_images and main *)
(* of src/src/storyboard/storyboard.py; class Video, _evaluate_ratio,      *)
(* _round_up and main of src/metadata.py.                                  *)
(*                                                                         *)
(* Numbers that are floats in the source (duration, timestamps, aspect     *)
(* ratios) are exact rationals here, a pair <<numerator, denominator>> in  *)
(* lowest terms.  An optional value is a sequence of length 0 (absent) or  *)
(* 1 (present); None is the empty tuple.  List indices are the source's    *)
(* 0-based indices; a TLA+ sequence holds element i at position i + 1.     *)
(***************************************************************************)
EXTENDS Integers, Sequences, FiniteSets, TLC

VARIABLES video, frames, failed_idx, last, tile_call, thumb_call, meta, cli,
          call

vars == <<video, frames, failed_idx, last, tile_call, thumb_call, meta, cli,
          call>>

----------------------------------------------------------------------------
(* Bounds of the model *)

MaxDuration == 2
MaxCount == 2
MaxFrames == 3
MaxCols == 2
MaxRows == 2
MaxImages == 4
MaxWidth == 2
MaxHeight == 2
MaxMantissa == 12
MaxStreams == 3
MaxOps == 3
MaxVersions == 2
MaxVideos == 3
MaxRatioLen == 4
MaxSeconds == 3

----------------------------------------------------------------------------
(* Rational arithmetic *)

RECURSIVE GCD(_, _)
GCD(a, b) == IF b = 0 THEN a ELSE GCD(b, a % b)

Abs(n) == IF n < 0 THEN -n ELSE n

Rat(n, d) ==
    LET g == GCD(Abs(n), Abs(d))
        s == IF d < 0 THEN -1 ELSE 1
    IN  <<(s * n) \div g, (s * d) \div g>>

RatMul(p, q) == Rat(p[1] * q[1], p[2] * q[2])

RatAdd(p, q) == Rat(p[1] * q[2] + q[1] * p[2], p[2] * q[2])

RatLess(p, q) == p[1] * q[2] < q[1] * p[2]

\* Python 3 round() of a nonnegative quotient n/d: ties go to the even integer
RoundHalfEven(n, d) ==
    LET q == n \div d
        r == n % d
    IN  IF 2 * r < d THEN q
        ELSE IF 2 * r > d THEN q + 1
        ELSE IF q % 2 = 0 THEN q ELSE q + 1

None == <<>>

Absent == <<>>

Present(v) == <<v>>

\* params[key] if key in params else default
Param(p, default) == IF p = Absent THEN default ELSE p[1]

Range(s) == {s[i] : i \in 1..Len(s)}

----------------------------------------------------------------------------
(* StoryBoard.gen_frames *)

\* the frame taken at the end of its interval instead of the middle
Timestamp_m(interval, i) == RatMul(interval, Rat(i + 1, 1))

\* interval * (i + 1/2), with interval = duration / count
Timestamp(interval, i) == RatMul(interval, RatAdd(Rat(i, 1), Rat(1, 2)))

\* timestamps = [interval * (i + 1/2) for i in range(0, count)]
Timestamps(duration, count) ==
    LET interval == Rat(duration, count)
    IN  [j \in 1..count |-> Timestamp(interval, j - 1)]

\* the frame extractor's result for one timestamp
ExtractFrame(v, timestamp) == [timestamp |-> timestamp, image |-> v.frame_size]

\* frames after the loop has appended the frames of the first k timestamps
AppendFrames(fs, v, timestamps, k) ==
    fs \o [j \in 1..k |-> ExtractFrame(v, timestamps[j])]

\* gen_frames without the test len(self.frames) == count
GenFrames_m(v, fs, failed, count, k) ==
    IF count = 0
    THEN [frames |-> fs, failed_idx |-> failed, exc |-> "ZeroDivisionError",
          requested |-> <<>>]
    ELSE LET timestamps == Timestamps(v.duration, count)
             new == AppendFrames(fs, v, timestamps, k)
         IN  IF k = count
             THEN [frames |-> new, failed_idx |-> failed, exc |-> "none",
                   requested |-> timestamps]
             ELSE [frames |-> new,
                   failed_idx |-> failed \cup ((Len(fs) + 1)..Len(new)),
                   exc |-> "OSError",
                   requested |-> SubSeq(timestamps, 1, k + 1)]

\* One call gen_frames(count) in which the extractor succeeds for the first
\* k timestamps and, when k < count, fails at the next one.
GenFrames(v, fs, failed, count, k) ==
    IF Len(fs) = count
    THEN [frames |-> fs, failed_idx |-> failed, exc |-> "none",
          requested |-> <<>>]
    ELSE IF count = 0
    THEN [frames |-> fs, failed_idx |-> failed, exc |-> "ZeroDivisionError",
          requested |-> <<>>]
    ELSE LET timestamps == Timestamps(v.duration, count)
             new == AppendFrames(fs, v, timestamps, k)
         IN  IF k = count
             THEN [frames |-> new, failed_idx |-> failed, exc |-> "none",
                   requested |-> timestamps]
             ELSE [frames |-> new,
                   failed_idx |-> failed \cup ((Len(fs) + 1)..Len(new)),
                   exc |-> "OSError",
                   requested |-> SubSeq(timestamps, 1, k + 1)]

----------------------------------------------------------------------------
(* create_thumbnail *)

Aligns == {"right", "left", "center"}

\* height = int(round(width / aspect_ratio))
ThumbnailHeight(width, aspect_ratio) ==
    RoundHalfEven(width * aspect_ratio[2], aspect_ratio[1])

\* an unknown alignment falls back to the default instead of being refused
create_thumbnail_m(frame, width, params) ==
    LET aspect_ratio == IF params.aspect_ratio # Absent
                        THEN params.aspect_ratio[1]
                        ELSE Rat(frame.image[1], frame.image[2])
        height == RoundHalfEven(width * aspect_ratio[2], aspect_ratio[1])
        draw_timestamp == Param(params.draw_timestamp, FALSE)
        timestamp_align == Param(params.timestamp_align, "right")
    IN  [exc |-> "none", size |-> <<width, height>>,
         stamp |-> IF ~draw_timestamp THEN None
                   ELSE IF timestamp_align \in {"right", "left", "center"}
                   THEN <<timestamp_align>> ELSE <<"right">>]

\* create_thumbnail(frame, width, params), params = [aspect_ratio,
\* draw_timestamp, timestamp_align], each optional.  The result is the
\* exception raised ("none" when the thumbnail is returned), the size of the
\* thumbnail and the alignment the timestamp was drawn with (None when no
\* timestamp is drawn).
create_thumbnail(frame, width, params) ==
    LET aspect_ratio == IF params.aspect_ratio # Absent
                        THEN params.aspect_ratio[1]
                        ELSE Rat(frame.image[1], frame.image[2])
        height == ThumbnailHeight(width, aspect_ratio)
        draw_timestamp == Param(params.draw_timestamp, FALSE)
        timestamp_align == Param(params.timestamp_align, "right")
    IN  IF draw_timestamp /\ timestamp_align \notin Aligns
        THEN [exc |-> "ValueError", size |-> None, stamp |-> None]
        ELSE [exc |-> "none", size |-> <<width, height>>,
              stamp |-> IF draw_timestamp THEN <<timestamp_align>> ELSE None]

----------------------------------------------------------------------------
(* tile_images *)

\* An image is [size |-> <<width, height>>].  images[index] of the source:
Img(images, index) == images[index + 1]

\* only too few images are refused
LengthMismatch_m(images, cols, rows) == Len(images) < cols * rows

LengthMismatch(images, cols, rows) == Len(images) # cols * rows

LengthMsg(images, cols, rows) ==
    [kind |-> "length", n |-> Len(images), cols |-> cols, rows |-> rows,
     product |-> cols * rows]

\* the message of the column width check (lines 369-375)
WidthMsg(index, row, col, width, height, ref_index, ref_width, ref_height) ==
    [kind |-> "width", index |-> index, row |-> row, col |-> col,
     width |-> width, height |-> height, ref_index |-> ref_index,
     ref_row |-> 0, ref_col |-> col,
     ref_width |-> ref_width, ref_height |-> ref_height]

\* the message of the row height check (lines 389-395)
HeightMsg(index, row, col, width, height, ref_index, ref_width, ref_height) ==
    [kind |-> "height", index |-> index, row |-> row, col |-> col,
     width |-> width, height |-> height, ref_index |-> ref_index,
     ref_row |-> 0, ref_col |-> col,
     ref_width |-> ref_width, ref_height |-> ref_height]

\* for row in range(row, rows): the first image of column col whose width
\* differs from ref_width, as a message; <<>> when there is none
RECURSIVE ColumnRows(_, _, _, _, _)
ColumnRows(images, cols, rows, col, row) ==
    IF row >= rows THEN <<>>
    ELSE LET ref_index == 0 * cols + col
             ref == Img(images, ref_index).size
             index == row * cols + col
             size == Img(images, index).size
         IN  IF size[1] # ref[1]
             THEN <<WidthMsg(index, row, col, size[1], size[2],
                             ref_index, ref[1], ref[2])>>
             ELSE ColumnRows(images, cols, rows, col, row + 1)

\* for col in range(col, cols): column width consistency, accumulating
\* canvas_width
RECURSIVE CheckColumns(_, _, _, _, _)
CheckColumns(images, cols, rows, col, canvas_width) ==
    IF col >= cols THEN [msg |-> <<>>, total |-> canvas_width]
    ELSE LET ref_width == Img(images, 0 * cols + col).size[1]
             bad == ColumnRows(images, cols, rows, col, 1)
         IN  IF bad # <<>>
             THEN [msg |-> bad, total |-> canvas_width + ref_width]
             ELSE CheckColumns(images, cols, rows, col + 1,
                               canvas_width + ref_width)

\* the row check compares widths where it is to compare heights
RECURSIVE RowCols_m(_, _, _, _, _)
RowCols_m(images, cols, rows, row, col) ==
    IF col >= cols THEN <<>>
    ELSE LET ref_index == row * cols + 0
             ref == Img(images, ref_index).size
             index == row * cols + col
             size == Img(images, index).size
         IN  IF size[1] # ref[1]
             THEN <<HeightMsg(index, row, col, size[1], size[2],
                              ref_index, ref[1], ref[2])>>
             ELSE RowCols_m(images, cols, rows, row, col + 1)

\* for col in range(col, cols): the first image of row row whose height
\* differs from ref_height, as a message; <<>> when there is none
RECURSIVE RowCols(_, _, _, _, _)
RowCols(images, cols, rows, row, col) ==
    IF col >= cols THEN <<>>
    ELSE LET ref_index == row * cols + 0
             ref == Img(images, ref_index).size
             index == row * cols + col
             size == Img(images, index).size
         IN  IF size[2] # ref[2]
             THEN <<HeightMsg(index, row, col, size[1], size[2],
                              ref_index, ref[1], ref[2])>>
             ELSE RowCols(images, cols, rows, row, col + 1)

\* for row in range(row, rows): row height consistency, accumulating
\* canvas_height
RECURSIVE CheckRows(_, _, _, _, _)
CheckRows(images, cols, rows, row, canvas_height) ==
    IF row >= rows THEN [msg |-> <<>>, total |-> canvas_height]
    ELSE LET ref_height == Img(images, row * cols + 0).size[2]
             bad == RowCols(images, cols, rows, row, 1)
         IN  IF bad # <<>>
             THEN [msg |-> bad, total |-> canvas_height + ref_height]
             ELSE CheckRows(images, cols, rows, row + 1,
                            canvas_height + ref_height)

\* one spacing per column instead of one per gap
TileCanvasWidth_m(tile_width, cols, hor_spacing, hor_margin) ==
    tile_width * cols + hor_spacing * cols + hor_margin * 2

\* Mode A canvas size (lines 351-354)
TileCanvasWidth(tile_width, cols, hor_spacing, hor_margin) ==
    tile_width * cols + hor_spacing * (cols - 1) + hor_margin * 2

TileCanvasHeight(tile_height, rows, ver_spacing, ver_margin) ==
    tile_height * rows + ver_spacing * (rows - 1) + ver_margin * 2

\* what canvas.paste receives for one image: the image resized to tile_size
\* when resize is set, the image itself otherwise
PastedSize(image, resize, tile_size) ==
    IF resize THEN tile_size ELSE image.size

\* for col in range(col, cols) of one row: the pastes, x accumulating the
\* width of each image and the horizontal spacing
RECURSIVE PasteRow(_, _, _, _, _, _, _, _)
PasteRow(images, cols, row, col, x, y, hor_spacing, rz) ==
    IF col >= cols THEN <<>>
    ELSE LET index == row * cols + col
             image == Img(images, index)
         IN  <<[index |-> index, row |-> row, col |-> col, x |-> x, y |-> y,
                size |-> PastedSize(image, rz.resize, rz.tile_size)]>>
             \o PasteRow(images, cols, row, col + 1,
                         x + image.size[1] + hor_spacing, y, hor_spacing, rz)

\* for row in range(row, rows): y accumulating the height of the row's first
\* image and the vertical spacing
RECURSIVE PasteRows(_, _, _, _, _, _, _)
PasteRows(images, cols, rows, row, y, g, rz) ==
    IF row >= rows THEN <<>>
    ELSE PasteRow(images, cols, row, 0, g.hor_margin, y, g.hor_spacing, rz)
         \o PasteRows(images, cols, rows, row + 1,
                      y + Img(images, row * cols + 0).size[2] + g.ver_spacing,
                      g, rz)

\* the images are closed whatever the flag says
ClosedImages_m(images, close_separate_images) ==
    [j \in 1..Len(images) |-> j - 1]

\* lines 418-420: the indices of the images closed after the paste loops
ClosedImages(images, close_separate_images) ==
    IF close_separate_images THEN [j \in 1..Len(images) |-> j - 1] ELSE <<>>

\* the events of a call that reaches the paste loops, in program order
TileEvents(pastes, closes) ==
    [j \in 1..Len(pastes) |-> [ev |-> "paste", index |-> pastes[j].index]]
    \o [j \in 1..Len(closes) |-> [ev |-> "close", index |-> closes[j]]]

\* the canvas created, and the images closed on request, before the checks
TileRaise_m(msg) ==
    [exc |-> "ValueError", msg |-> msg, canvas |-> <<0, 0>>, pastes |-> <<>>,
     events |-> <<[ev |-> "close", index |-> 0]>>, closed |-> {0}]

TileRaise(msg) ==
    [exc |-> "ValueError", msg |-> msg, canvas |-> None, pastes |-> <<>>,
     events |-> <<>>, closed |-> {}]

\* tile_images(images, tile, params), params = [tile_size, tile_spacing,
\* margins, close_separate_images], each optional (tile_size may also be
\* present and None).
tile_images(images, tile, params) ==
    LET cols == tile[1]
        rows == tile[2]
        spacing == Param(params.tile_spacing, <<0, 0>>)
        margins == Param(params.margins, <<0, 0>>)
        g == [hor_spacing |-> spacing[1], ver_spacing |-> spacing[2],
              hor_margin |-> margins[1], ver_margin |-> margins[2]]
        close_separate_images == Param(params.close_separate_images, FALSE)
        resize == params.tile_size # Absent /\ params.tile_size[1] # None
        tile_size == IF resize THEN params.tile_size[1] ELSE None
        rz == [resize |-> resize, tile_size |-> tile_size]
        colcheck == CheckColumns(images, cols, rows, 0,
                        g.hor_spacing * (cols - 1) + g.hor_margin * 2)
        rowcheck == CheckRows(images, cols, rows, 0,
                        g.ver_spacing * (rows - 1) + g.ver_margin * 2)
        canvas == IF resize
                  THEN <<TileCanvasWidth(tile_size[1], cols, g.hor_spacing,
                                         g.hor_margin),
                         TileCanvasHeight(tile_size[2], rows, g.ver_spacing,
                                          g.ver_margin)>>
                  ELSE <<colcheck.total, rowcheck.total>>
        pastes == PasteRows(images, cols, rows, 0, g.ver_margin, g, rz)
        closes == ClosedImages(images, close_separate_images)
    IN  IF LengthMismatch(images, cols, rows)
        THEN TileRaise(<<LengthMsg(images, cols, rows)>>)
        ELSE IF ~resize /\ colcheck.msg # <<>> THEN TileRaise(colcheck.msg)
        ELSE IF ~resize /\ rowcheck.msg # <<>> THEN TileRaise(rowcheck.msg)
        ELSE [exc |-> "none", msg |-> <<>>, canvas |-> canvas,
              pastes |-> pastes, events |-> TileEvents(pastes, closes),
              closed |-> Range(closes)]

----------------------------------------------------------------------------
(* State of one StoryBoard, and the record of the last call *)

\* tile_images was not reached
NoTile ==
    [exc |-> "notcalled", msg |-> <<>>, canvas |-> None, pastes |-> <<>>,
     events |-> <<>>, closed |-> {}]

Videos ==
    {[duration |-> d, dar |-> a[1], frame_size |-> a[2]] :
        d \in 0..MaxDuration, a \in {<<None, <<3, 2>>>>, <<Rat(2, 1), <<4, 2>>>>}}

NoCall == [images |-> <<>>, tile |-> <<0, 0>>, called |-> FALSE,
           params |-> [tile_size |-> Absent, tile_spacing |-> Absent,
                       margins |-> Absent, close_separate_images |-> Absent],
           res |-> NoTile]

\* nothing else of the package is in use
Idle ==
    /\ thumb_call = "idle"
    /\ meta = "idle"
    /\ cli = "idle"
    /\ call = "idle"

\* StoryBoard.__init__: self.frames = []
Init ==
    /\ video \in Videos
    /\ frames = <<>>
    /\ failed_idx = {}
    /\ last = [op |-> "init", count |-> 0, exc |-> "none", requested |-> <<>>,
               before |-> 0, tiled |-> <<>>, tile |-> NoTile]
    /\ tile_call = NoCall
    /\ Idle

\* gen_frames(count); the extractor succeeds k times
gen_frames(count, k) ==
    /\ Len(frames) + count <= MaxFrames
    /\ LET r == GenFrames(video, frames, failed_idx, count, k)
       IN  /\ frames' = r.frames
           /\ failed_idx' = r.failed_idx
           /\ last' = [op |-> "gen_frames", count |-> count, exc |-> r.exc,
                       requested |-> r.requested, before |-> Len(frames),
                       tiled |-> <<>>, tile |-> NoTile]
    /\ UNCHANGED <<video, tile_call, thumb_call, meta, cli, call>>

\* the thumbnail loop of _gen_bare_storyboard (lines 715-727): the thumbnails
\* of the frames fs[j..], or the exception that ends the loop
RECURSIVE Thumbnails(_, _, _, _, _)
Thumbnails(fs, j, thumbnail_width, tp, draw_timestamp) ==
    IF j > Len(fs) THEN [exc |-> "none", thumbnails |-> <<>>]
    ELSE IF ~draw_timestamp
    THEN \* timestamp_font and timestamp_align are bound only when
         \* draw_timestamp is set (lines 695-699)
         [exc |-> "UnboundLocalError", thumbnails |-> <<>>]
    ELSE LET t == create_thumbnail(fs[j], thumbnail_width, tp)
             rest == Thumbnails(fs, j + 1, thumbnail_width, tp, draw_timestamp)
         IN  IF t.exc # "none" THEN [exc |-> t.exc, thumbnails |-> <<>>]
             ELSE IF rest.exc # "none" THEN rest
             ELSE [exc |-> "none",
                   thumbnails |-> <<[size |-> t.size]>> \o rest.thumbnails]

\* _gen_bare_storyboard(tile, thumbnail_width, params), params =
\* [tile_spacing, thumbnail_aspect_ratio, draw_timestamp, timestamp_align];
\* the extractor succeeds k times in the gen_frames call
GenBareStoryboard(v, fs, failed, tile, thumbnail_width, params, k) ==
    LET cols == tile[1]
        rows == tile[2]
        draw_timestamp == Param(params.draw_timestamp, FALSE)
        timestamp_align == Param(params.timestamp_align, "right")
        g == GenFrames(v, fs, failed, cols * rows, k)
        given_ratio == IF params.thumbnail_aspect_ratio # Absent
                       THEN params.thumbnail_aspect_ratio[1]
                       ELSE v.dar
        thumbnail_aspect_ratio ==
            IF given_ratio # None THEN given_ratio
            ELSE LET frame_size == g.frames[1].image
                 IN  Rat(frame_size[1], frame_size[2])
        tp == [aspect_ratio |-> Present(thumbnail_aspect_ratio),
               draw_timestamp |-> Present(draw_timestamp),
               timestamp_align |-> Present(timestamp_align)]
        th == Thumbnails(g.frames, 1, thumbnail_width, tp, draw_timestamp)
        same == [frames |-> fs, failed_idx |-> failed, requested |-> <<>>,
                 tiled |-> <<>>, tile |-> NoTile]
        after == [frames |-> g.frames, failed_idx |-> g.failed_idx,
                  requested |-> g.requested, tiled |-> <<>>, tile |-> NoTile]
    IN  IF ~(cols > 0 /\ rows > 0)
        THEN [exc |-> "ValueError"] @@ same
        ELSE IF g.exc # "none" THEN [exc |-> g.exc] @@ after
        ELSE IF th.exc # "none" THEN [exc |-> th.exc] @@ after
        ELSE LET res == tile_images(th.thumbnails, tile,
                            [tile_size |-> Absent,
                             tile_spacing |->
                                 Present(Param(params.tile_spacing, <<0, 0>>)),
                             margins |-> Absent,
                             close_separate_images |-> Present(TRUE)])
             IN  [exc |-> IF res.exc = "none" THEN "none" ELSE res.exc,
                  frames |-> g.frames, failed_idx |-> g.failed_idx,
                  requested |-> g.requested,
                  tiled |-> [j \in 1..Len(g.frames) |-> j],
                  tile |-> res]

ThumbnailWidths == {3}

NoParams ==
    [tile_spacing |-> Absent, thumbnail_aspect_ratio |-> Absent,
     draw_timestamp |-> Absent, timestamp_align |-> Absent]

BareParams ==
    {NoParams,
     [NoParams EXCEPT !.draw_timestamp = Present(TRUE)],
     [NoParams EXCEPT !.draw_timestamp = Present(TRUE),
                      !.timestamp_align = Present("left"),
                      !.tile_spacing = Present(<<1, 2>>)],
     [NoParams EXCEPT !.draw_timestamp = Present(TRUE),
                      !.thumbnail_aspect_ratio = Present(Rat(1, 1))],
     [NoParams EXCEPT !.draw_timestamp = Present(TRUE),
                      !.timestamp_align = Present("middle")],
     [NoParams EXCEPT !.draw_timestamp = Present(FALSE),
                      !.timestamp_align = Present("middle")]}

gen_bare_storyboard(tile, thumbnail_width, params, k) ==
    /\ Len(frames) + tile[1] * tile[2] <= MaxFrames
    /\ LET r == GenBareStoryboard(video, frames, failed_idx, tile,
                                  thumbnail_width, params, k)
       IN  /\ frames' = r.frames
           /\ failed_idx' = r.failed_idx
           /\ last' = [op |-> "bare", count |-> tile[1] * tile[2],
                       exc |-> r.exc, requested |-> r.requested,
                       before |-> Len(frames), tiled |-> r.tiled,
                       tile |-> r.tile]
    /\ UNCHANGED <<video, tile_call, thumb_call, meta, cli, call>>

\* the numbers of successful extractions that one call gen_frames(count) on
\* frames fs can see
Successes(fs, count) == IF Len(fs) = count THEN {count} ELSE 0..count

Next ==
    \/ \E count \in 0..MaxCount : \E k \in Successes(frames, count) :
           gen_frames(count, k)
    \/ \E tile \in (0..MaxCols) \X (0..MaxRows) :
       \E thumbnail_width \in ThumbnailWidths :
       \E params \in BareParams :
       \E k \in Successes(frames, tile[1] * tile[2]) :
           gen_bare_storyboard(tile, thumbnail_width, params, k)

Spec == Init /\ [][Next]_vars

----------------------------------------------------------------------------
(* tile_images on its own, over bounded inputs *)

Sizes == {1, MaxWidth} \X {1, MaxHeight}

Images == [size : Sizes]

RECURSIVE SeqsUpTo(_, _)
SeqsUpTo(S, n) ==
    IF n = 0 THEN {<<>>}
    ELSE LET shorter == SeqsUpTo(S, n - 1)
         IN  shorter \cup {Append(s, x) : s \in shorter, x \in S}

TileParams ==
    [tile_size : {Absent, Present(None), Present(<<2, 3>>)},
     tile_spacing : {Absent, Present(<<1, 2>>)},
     margins : {Absent, Present(<<2, 1>>)},
     close_separate_images : {Absent, Present(FALSE), Present(TRUE)}]

\* the arguments of one call of tile_images, not yet made
InitTile ==
    /\ video = [duration |-> 1, dar |-> None, frame_size |-> <<3, 2>>]
    /\ frames = <<>>
    /\ failed_idx = {}
    /\ last = [op |-> "init", count |-> 0, exc |-> "none", requested |-> <<>>,
               before |-> 0, tiled |-> <<>>, tile |-> NoTile]
    /\ \E images \in SeqsUpTo(Images, MaxImages) :
       \E tile \in (1..MaxCols) \X (1..MaxRows) :
       \E params \in TileParams :
           tile_call = [images |-> images, tile |-> tile, params |-> params,
                        called |-> FALSE, res |-> NoTile]
    /\ Idle

CallTileImages ==
    /\ ~tile_call.called
    /\ tile_call' = [tile_call EXCEPT
           !.called = TRUE,
           !.res = tile_images(tile_call.images, tile_call.tile,
                               tile_call.params)]
    /\ UNCHANGED <<video, frames, failed_idx, last, thumb_call, meta, cli, call>>

NextTile == CallTileImages

SpecTile == InitTile /\ [][NextTile]_vars

----------------------------------------------------------------------------
(* Properties of gen_frames and _gen_bare_storyboard, checked under Spec *)

\* the sample points (2i+1)*duration/(2*count), i = 0..count-1
SamplePoint(duration, count, i) == Rat((2 * i + 1) * duration, 2 * count)

\* C1: after gen_frames calls that each returned normally, the last one with
\* a positive count, frames holds exactly count frames, those at the sample
\* timestamps of that call.
C1_FramesAreThoseOfLastCall ==
    (last.op = "gen_frames" /\ last.exc = "none" /\ last.count > 0
        /\ failed_idx = {})
    => /\ Len(frames) = last.count
       /\ \A j \in 1..Len(frames) :
              frames[j].timestamp
                  = SamplePoint(video.duration, last.count, j - 1)

\* C2: a tiling never consumes a frame that was collected by a gen_frames
\* call that failed partway.
C2_NoPartialFramesTiled ==
    (last.op = "bare" /\ last.tile.exc # "notcalled")
    => \A j \in Range(last.tiled) : j \notin failed_idx

\* C3: with duration > 0 the timestamps requested by a gen_frames call are
\* the sample points (2i+1)*duration/(2*count) in the order i = 0, 1, ...
\* (all count of them when the call returns normally), strictly increasing
\* and strictly inside (0, duration).
C3_RequestedTimestamps ==
    (video.duration > 0 /\ last.op \in {"gen_frames", "bare"})
    => /\ \A j \in 1..Len(last.requested) :
              /\ j <= last.count
              /\ last.requested[j]
                     = SamplePoint(video.duration, last.count, j - 1)
              /\ RatLess(Rat(0, 1), last.requested[j])
              /\ RatLess(last.requested[j], Rat(video.duration, 1))
              /\ j > 1 => RatLess(last.requested[j - 1], last.requested[j])
       /\ (last.exc = "none" /\ last.before # last.count /\ last.count > 0)
              => Len(last.requested) = last.count

C3_Witness ==
    /\ video.duration > 0
    /\ last.op = "gen_frames"
    /\ last.exc = "none"
    /\ last.count = MaxCount
    /\ Len(last.requested) = MaxCount

\* C4: gen_frames(0) raises the division-by-zero error in every state, also
\* on a StoryBoard whose frames list is empty.
C4_ZeroCountRaises ==
    (last.op = "gen_frames" /\ last.count = 0)
    => last.exc = "ZeroDivisionError"

----------------------------------------------------------------------------
(* Properties of tile_images, checked under SpecTile *)

TC_cols == tile_call.tile[1]

TC_rows == tile_call.tile[2]

TC_spacing == Param(tile_call.params.tile_spacing, <<0, 0>>)

TC_margins == Param(tile_call.params.margins, <<0, 0>>)

\* Mode A: tile_size is given
TC_ModeA ==
    tile_call.params.tile_size # Absent
    /\ tile_call.params.tile_size[1] # None

TC_Returned == tile_call.called /\ tile_call.res.exc = "none"

\* the width of column c and the height of row r that the layout is to use
TC_ColWidth(c) ==
    IF TC_ModeA THEN tile_call.params.tile_size[1][1]
    ELSE Img(tile_call.images, c).size[1]

TC_RowHeight(r) ==
    IF TC_ModeA THEN tile_call.params.tile_size[1][2]
    ELSE Img(tile_call.images, r * TC_cols).size[2]

RECURSIVE TC_SumColWidths(_)
TC_SumColWidths(n) ==
    IF n <= 0 THEN 0 ELSE TC_SumColWidths(n - 1) + TC_ColWidth(n - 1)

RECURSIVE TC_SumRowHeights(_)
TC_SumRowHeights(n) ==
    IF n <= 0 THEN 0 ELSE TC_SumRowHeights(n - 1) + TC_RowHeight(n - 1)

\* two pasted rectangles share no pixel
Disjoint(p, q) ==
    \/ p.x + p.size[1] <= q.x
    \/ q.x + q.size[1] <= p.x
    \/ p.y + p.size[2] <= q.y
    \/ q.y + q.size[2] <= p.y

\* C5: in both modes image row*cols+col is pasted at
\* x = hor_margin + (widths of columns 0..col-1) + col*hor_spacing and
\* y = ver_margin + (heights of rows 0..row-1) + row*ver_spacing, a column's
\* width and a row's height being the tile size in Mode A; the last column
\* ends at canvas_width - hor_margin, the last row at
\* canvas_height - ver_margin, and no two tiles overlap.
C5_PastePositions ==
    TC_Returned =>
        LET pastes == tile_call.res.pastes
            canvas == tile_call.res.canvas
        IN  /\ Len(pastes) = TC_cols * TC_rows
            /\ \A j \in 1..Len(pastes) :
                 LET p == pastes[j]
                 IN  /\ p.index = j - 1
                     /\ p.index = p.row * TC_cols + p.col
                     /\ p.x = TC_margins[1] + TC_SumColWidths(p.col)
                                  + p.col * TC_spacing[1]
                     /\ p.y = TC_margins[2] + TC_SumRowHeights(p.row)
                                  + p.row * TC_spacing[2]
                     /\ p.col = TC_cols - 1
                            => p.x + p.size[1] = canvas[1] - TC_margins[1]
                     /\ p.row = TC_rows - 1
                            => p.y + p.size[2] = canvas[2] - TC_margins[2]
            /\ \A j, k \in 1..Len(pastes) :
                 j # k => Disjoint(pastes[j], pastes[k])

\* C6: tile_images raises ValueError for the length whenever
\* len(images) # cols*rows, in both modes, whatever the sizes of the images
\* and with no canvas and no paste; it never raises it when
\* len(images) = cols*rows.
C6_LengthCheck ==
    tile_call.called =>
        IF Len(tile_call.images) # TC_cols * TC_rows
        THEN /\ tile_call.res.exc = "ValueError"
             /\ tile_call.res.msg[1].kind = "length"
             /\ tile_call.res.canvas = None
             /\ tile_call.res.pastes = <<>>
        ELSE tile_call.res.msg # <<>>
                 => tile_call.res.msg[1].kind # "length"

\* more images than the array holds, of inconsistent sizes, without tile_size
C6_Witness ==
    /\ tile_call.called
    /\ ~TC_ModeA
    /\ Len(tile_call.images) > TC_cols * TC_rows
    /\ TC_rows = 2
    /\ tile_call.images[1].size[1] # tile_call.images[1 + TC_cols].size[1]
    /\ tile_call.res.exc = "ValueError"

\* every image has the width of the row-0 image of its column and the
\* height of the column-0 image of its row
TC_Consistent ==
    \A row \in 0..(TC_rows - 1) : \A col \in 0..(TC_cols - 1) :
        LET size == Img(tile_call.images, row * TC_cols + col).size
        IN  /\ size[1] = Img(tile_call.images, col).size[1]
            /\ size[2] = Img(tile_call.images, row * TC_cols).size[2]

\* C7: without tile_size and with len(images) = cols*rows, tile_images
\* returns a canvas exactly when the widths agree within every column and
\* the heights within every row, and raises ValueError with no canvas
\* otherwise.
C7_ModeBConsistency ==
    (tile_call.called /\ ~TC_ModeA
        /\ Len(tile_call.images) = TC_cols * TC_rows)
    => IF TC_Consistent
       THEN tile_call.res.exc = "none" /\ tile_call.res.canvas # None
       ELSE /\ tile_call.res.exc = "ValueError"
            /\ tile_call.res.canvas = None
            /\ tile_call.res.pastes = <<>>

\* a 2x2 array whose widths agree and whose heights differ in the last row
C7_Witness ==
    /\ tile_call.called
    /\ ~TC_ModeA
    /\ TC_cols = 2
    /\ TC_rows = 2
    /\ Len(tile_call.images) = 4
    /\ tile_call.res.exc = "ValueError"
    /\ tile_call.res.msg[1].kind = "height"
    /\ tile_call.res.msg[1].row = 1

\* C8: on a Mode B mismatch the message names the offending image by index,
\* by its own (row, col) and its size, and the reference image by index, by
\* the reference image's own (row, col) and its size.
C8_MismatchMessage ==
    (tile_call.called /\ tile_call.res.msg # <<>>
        /\ tile_call.res.msg[1].kind \in {"width", "height"})
    => LET m == tile_call.res.msg[1]
       IN  /\ m.row = m.index \div TC_cols
           /\ m.col = m.index % TC_cols
           /\ <<m.width, m.height>> = Img(tile_call.images, m.index).size
           /\ m.ref_index = IF m.kind = "width" THEN m.col
                            ELSE m.row * TC_cols
           /\ m.ref_row = m.ref_index \div TC_cols
           /\ m.ref_col = m.ref_index % TC_cols
           /\ <<m.ref_width, m.ref_height>>
                  = Img(tile_call.images, m.ref_index).size

\* C9: the canvas has the predicted size: from the tile size in Mode A, from
\* the row-0 widths and the column-0 heights in Mode B.
C9_CanvasSize ==
    TC_Returned =>
        /\ tile_call.res.canvas[1]
               = TC_SumColWidths(TC_cols) + TC_spacing[1] * (TC_cols - 1)
                     + 2 * TC_margins[1]
        /\ tile_call.res.canvas[2]
               = TC_SumRowHeights(TC_rows) + TC_spacing[2] * (TC_rows - 1)
                     + 2 * TC_margins[2]

\* Mode A with spacing and margins, on a 2x2 array
C9_Witness ==
    /\ TC_Returned
    /\ TC_ModeA
    /\ TC_cols = 2
    /\ TC_rows = 2
    /\ tile_call.params.tile_spacing # Absent
    /\ tile_call.params.margins # Absent

\* C10: the input images are closed only when close_separate_images is
\* passed as true: absent or false, no image is closed; true, every image is
\* closed once the call returns, each close coming after every paste.
C10_CloseOnlyOnRequest ==
    tile_call.called =>
        LET ev == tile_call.res.events
            all == 0..(Len(tile_call.images) - 1)
        IN  IF Param(tile_call.params.close_separate_images, FALSE)
            THEN tile_call.res.exc = "none" =>
                   /\ tile_call.res.closed = all
                   /\ {ev[j].index : j \in {i \in 1..Len(ev) :
                                              ev[i].ev = "paste"}} = all
                   /\ \A i, j \in 1..Len(ev) :
                        (ev[i].ev = "close" /\ ev[j].ev = "paste") => j < i
            ELSE /\ tile_call.res.closed = {}
                 /\ \A i \in 1..Len(ev) : ev[i].ev # "close"

C10_Witness ==
    /\ TC_Returned
    /\ tile_call.params.close_separate_images = Present(TRUE)
    /\ Len(tile_call.images) = MaxImages
    /\ tile_call.res.closed = 0..(MaxImages - 1)

----------------------------------------------------------------------------
(* create_thumbnail on its own, over bounded inputs *)

ThumbParams ==
    [aspect_ratio : {Absent, Present(Rat(1, 1)), Present(Rat(2, 1))},
     draw_timestamp : {Absent, Present(FALSE), Present(TRUE)},
     timestamp_align : {Absent, Present("right"), Present("left"),
                        Present("center"), Present("middle")}]

NoThumbnail == [exc |-> "notcalled", size |-> None, stamp |-> None]

\* the arguments of one call of create_thumbnail, not yet made
InitThumb ==
    /\ video = [duration |-> 1, dar |-> None, frame_size |-> <<3, 2>>]
    /\ frames = <<>>
    /\ failed_idx = {}
    /\ last = [op |-> "init", count |-> 0, exc |-> "none", requested |-> <<>>,
               before |-> 0, tiled |-> <<>>, tile |-> NoTile]
    /\ tile_call = NoCall
    /\ meta = "idle"
    /\ cli = "idle"
    /\ call = "idle"
    /\ \E image \in {<<4, 2>>, <<3, 2>>} :
       \E width \in {2, 3} :
       \E params \in ThumbParams :
           thumb_call = [frame |-> [timestamp |-> Rat(1, 2), image |-> image],
                         width |-> width, params |-> params,
                         called |-> FALSE, res |-> NoThumbnail]

CallCreateThumbnail ==
    /\ ~thumb_call.called
    /\ thumb_call' = [thumb_call EXCEPT
           !.called = TRUE,
           !.res = create_thumbnail(thumb_call.frame, thumb_call.width,
                                    thumb_call.params)]
    /\ UNCHANGED <<video, frames, failed_idx, last, tile_call, meta, cli, call>>

NextThumb == CallCreateThumbnail

SpecThumb == InitThumb /\ [][NextThumb]_vars

\* params carries a timestamp_align outside {left, center, right}
TH_BadAlign ==
    /\ thumb_call.params.timestamp_align # Absent
    /\ thumb_call.params.timestamp_align[1] \notin {"left", "center", "right"}

TH_Draw == Param(thumb_call.params.draw_timestamp, FALSE)

\* C16 as stated: create_thumbnail raises ValueError and returns no
\* thumbnail for every call whose params carry an unknown timestamp_align,
\* whether or not draw_timestamp is set.
C16_BadAlignAlwaysRaises ==
    (thumb_call.called /\ TH_BadAlign)
    => /\ thumb_call.res.exc = "ValueError"
       /\ thumb_call.res.size = None

\* C16 as amended: create_thumbnail raises ValueError and returns no
\* thumbnail exactly for the calls with draw_timestamp set and an unknown
\* timestamp_align; with draw_timestamp absent or false timestamp_align is
\* not read and the thumbnail is returned without a timestamp; a timestamp
\* that is drawn uses the alignment asked for (right when none is given).
C16_BadAlignRaisesWhenDrawn ==
    thumb_call.called =>
        IF TH_Draw /\ TH_BadAlign
        THEN /\ thumb_call.res.exc = "ValueError"
             /\ thumb_call.res.size = None
             /\ thumb_call.res.stamp = None
        ELSE /\ thumb_call.res.exc = "none"
             /\ thumb_call.res.size # None
             /\ thumb_call.res.stamp
                    = IF TH_Draw
                      THEN <<Param(thumb_call.params.timestamp_align, "right")>>
                      ELSE None

C16_Witness ==
    /\ thumb_call.called
    /\ TH_Draw
    /\ TH_BadAlign
    /\ thumb_call.res.exc = "ValueError"

----------------------------------------------------------------------------
(* metadata.py: numeric and text helpers *)

Pow10(k) ==
    IF k = 0 THEN 1 ELSE IF k = 1 THEN 10 ELSE IF k = 2 THEN 100 ELSE 1000

\* math.ceil of the nonnegative quotient n/d
Ceil(n, d) == (n + d - 1) \div d

\* rounds to the nearest multiple of the precision instead of upward
round_up_m(number, ndigits) ==
    LET multiplier == Pow10(ndigits)
    IN  Rat(RoundHalfEven(number[1] * multiplier, number[2]), multiplier)

\* _round_up(number, ndigits): math.ceil(number * multiplier) / multiplier
round_up(number, ndigits) ==
    LET multiplier == Pow10(ndigits)
    IN  Rat(Ceil(number[1] * multiplier, number[2]), multiplier)

\* the decimal digits of k, zero-padded on the left to width w
RECURSIVE Pad(_, _)
Pad(k, w) ==
    IF w <= 1 THEN ToString(k)
    ELSE IF k < Pow10(w - 1) THEN "0" \o Pad(k, w - 1) ELSE ToString(k)

\* "%.<digits>f" % number, for a nonnegative number and digits in 1..2
FormatFixed(number, digits) ==
    LET scaled == RoundHalfEven(number[1] * Pow10(digits), number[2])
    IN  ToString(scaled \div Pow10(digits)) \o "."
            \o Pad(scaled % Pow10(digits), digits)

\* "%d" % number, for a nonnegative number: the integer part
FormatInt(number) == ToString(number[1] \div number[2])

----------------------------------------------------------------------------
(* Video._extract_size *)

\* A file size is the number m * 1024^e, kept as [m |-> m, e |-> e] so that
\* sizes up to the ZiB range stay within the integers of the checker; e is
\* negative once the loop has divided more often than the size has factors
\* of 1024.
Pow1024(k) == IF k = 0 THEN 1 ELSE IF k = 1 THEN 1024 ELSE 1048576

\* size < bound, for bound in {10, 1024}
SizeLess(size, bound) ==
    IF size.m = 0 THEN TRUE
    ELSE IF size.e >= 1 THEN FALSE
    ELSE size.m < bound * Pow1024(-size.e)

\* size /= multiplier
SizeDivide(size) == [size EXCEPT !.e = size.e - 1]

\* the size as a rational
SizeValue(size) ==
    IF size.e >= 0 THEN Rat(size.m * Pow1024(size.e), 1)
    ELSE Rat(size.m, Pow1024(-size.e))

Units == <<"Ki", "Mi", "Gi", "Ti", "Pi", "Ei", "Zi">>

\* one decimal whatever the magnitude
SizeDigits_m(size) == 1

\* lines 207-210: two decimals below 10, one otherwise
SizeDigits(size) == IF SizeLess(size, 10) THEN 2 ELSE 1

\* the text of a size in a unit: the number shown, its decimals and the unit
SizeText(size, digits, i) ==
    LET shown == round_up(SizeValue(size), digits)
    IN  [text |-> FormatFixed(shown, digits) \o Units[i] \o "B",
         shown |-> shown, digits |-> digits, unit |-> i]

\* for unit in [...]: the loop from the unit of index i on (lines 204-213)
RECURSIVE SizeLoop(_, _)
SizeLoop(size, i) ==
    LET quotient == SizeDivide(size)
    IN  IF SizeLess(quotient, 1024)
        THEN SizeText(quotient, SizeDigits(quotient), i)
        ELSE IF i = Len(Units) THEN SizeText(quotient, 1, i)
        ELSE SizeLoop(quotient, i + 1)

\* _extract_size: self.size_human for self.size = size
size_human(size) ==
    IF SizeLess(size, 1024)
    THEN [text |-> FormatInt(SizeValue(size)) \o "B",
          shown |-> SizeValue(size), digits |-> 0, unit |-> 0]
    ELSE SizeLoop(size, 1)

----------------------------------------------------------------------------
(* _extract_size on its own, over bounded inputs *)

\* the quiescent state of the StoryBoard and of every other call
Pinned ==
    /\ video = [duration |-> 1, dar |-> None, frame_size |-> <<3, 2>>]
    /\ frames = <<>>
    /\ failed_idx = {}
    /\ last = [op |-> "init", count |-> 0, exc |-> "none", requested |-> <<>>,
               before |-> 0, tiled |-> <<>>, tile |-> NoTile]
    /\ tile_call = NoCall
    /\ thumb_call = "idle"

SizeMantissas ==
    (0..MaxMantissa)
    \cup {1023, 1024, 1025, 1536, 10229, 10230, 10231, 10239, 10240, 10241,
          1047552, 1048524, 1048525, 1048575}

\* the sizes m * 1024^e, each number once, up to 1023 * 1024^8 bytes
SizeInputs ==
    {x \in [m : SizeMantissas, e : 0..8] :
        /\ x.e > 0 => (x.m > 0 /\ x.m % 1024 # 0)
        /\ x.e = 8 => x.m < 1024}

NoText == [text |-> "", shown |-> Rat(0, 1), digits |-> 0, unit |-> 0]

InitSize ==
    /\ Pinned
    /\ meta = "idle"
    /\ cli = "idle"
    /\ \E size \in SizeInputs :
           call = [fn |-> "_extract_size", arg |-> size, called |-> FALSE,
                   res |-> NoText]

CallExtractSize ==
    /\ ~call.called
    /\ call' = [call EXCEPT !.called = TRUE, !.res = size_human(call.arg)]
    /\ UNCHANGED <<video, frames, failed_idx, last, tile_call, thumb_call,
                   meta, cli>>

NextSize == CallExtractSize

SpecSize == InitSize /\ [][NextSize]_vars

\* the number of unit steps the size takes: the least k with
\* bytes / 1024^k < 1024, at most 7 (Zi)
SZ_Steps ==
    IF call.arg.m = 0 \/ (call.arg.e = 0 /\ call.arg.m < 1024) THEN 0
    ELSE LET k == call.arg.e + (IF call.arg.m >= 1024 THEN 1 ELSE 0)
         IN  IF k > 7 THEN 7 ELSE k

\* bytes / 1024^k for k = SZ_Steps, un-rounded
SZ_Quotient == SizeValue([m |-> call.arg.m, e |-> call.arg.e - SZ_Steps])

SZ_Bytes(m) == call.arg = [m |-> m, e |-> 0]

\* C17: sizes below 1024 print as "<n>B"; otherwise the byte count is
\* divided by 1024 once per unit step while the un-rounded quotient is
\* >= 1024, stopping at Zi, and the quotient is rounded up to 2 decimals when
\* it is < 10 and to 1 decimal otherwise; 0 -> "0B", 1023 -> "1023B",
\* 1024 -> "1.00KiB", 1536 -> "1.50KiB".
C17_SizeHuman ==
    call.called =>
        LET q == SZ_Quotient
            d == IF SZ_Steps = 0 THEN 0
                 ELSE IF RatLess(q, Rat(10, 1)) THEN 2 ELSE 1
        IN  /\ call.res.unit = SZ_Steps
            /\ call.res.digits = d
            /\ call.res.shown = Rat(Ceil(q[1] * Pow10(d), q[2]), Pow10(d))
            /\ SZ_Steps = 0 => call.res.text = ToString(call.arg.m) \o "B"
            /\ SZ_Steps > 0 =>
                   call.res.text = FormatFixed(call.res.shown, d)
                                       \o Units[SZ_Steps] \o "B"
            /\ SZ_Bytes(0) => call.res.text = "0B"
            /\ SZ_Bytes(1023) => call.res.text = "1023B"
            /\ SZ_Bytes(1024) => call.res.text = "1.00KiB"
            /\ SZ_Bytes(1536) => call.res.text = "1.50KiB"
            /\ SZ_Bytes(10240) => call.res.text = "10.0KiB"
            /\ call.arg = [m |-> 1024, e |-> 7] => call.res.text = "1024.0ZiB"

\* a size that reaches Zi with a quotient still >= 1024
C17_Witness ==
    /\ call.called
    /\ call.arg.e = 8
    /\ call.res.unit = 7
    /\ call.res.digits = 1
    /\ ~RatLess(call.res.shown, Rat(1024, 1))

\* C18: the number shown, multiplied back by its unit, is at least the true
\* byte count.
C18_RoundedUpward ==
    call.called => ~RatLess(call.res.shown, SZ_Quotient)

\* 1025 bytes are shown as more than 1025/1024 KiB
C18_Witness ==
    /\ call.called
    /\ SZ_Bytes(1025)
    /\ call.res.unit = 1
    /\ RatLess(SZ_Quotient, call.res.shown)

\* C19: the number displayed with a unit below ZiB is strictly less
\* than 1024.
C19_ShownBelow1024 ==
    (call.called /\ call.res.unit < 7)
    => RatLess(call.res.shown, Rat(1024, 1))

----------------------------------------------------------------------------
(* metadata.py: strings that the code parses are sequences of one-character
   strings; Join gives the text that is printed *)

DigitChars == <<"0", "1", "2", "3", "4", "5", "6", "7", "8", "9">>

LowerChars ==
    <<"a", "b", "c", "d", "e", "f", "g", "h", "i", "j", "k", "l", "m",
      "n", "o", "p", "q", "r", "s", "t", "u", "v", "w", "x", "y", "z">>

UpperChars ==
    <<"A", "B", "C", "D", "E", "F", "G", "H", "I", "J", "K", "L", "M",
      "N", "O", "P", "Q", "R", "S", "T", "U", "V", "W", "X", "Y", "Z">>

IsDigit(c) == \E i \in 1..10 : DigitChars[i] = c

DigitValue(c) == (CHOOSE i \in 1..10 : DigitChars[i] = c) - 1

RECURSIVE Join(_)
Join(chars) ==
    IF chars = <<>> THEN "" ELSE chars[1] \o Join(Tail(chars))

\* str.upper() on ASCII text
UpperChar(c) ==
    IF \E i \in 1..26 : LowerChars[i] = c
    THEN UpperChars[CHOOSE i \in 1..26 : LowerChars[i] = c]
    ELSE c

upper(chars) == [i \in 1..Len(chars) |-> UpperChar(chars[i])]

\* int() of a string of decimal digits
RECURSIVE ToInt(_)
ToInt(chars) ==
    IF chars = <<>> THEN 0
    ELSE 10 * ToInt(SubSeq(chars, 1, Len(chars) - 1))
             + DigitValue(chars[Len(chars)])

\* [1-9][0-9]*
MatchPositive(chars) ==
    /\ Len(chars) >= 1
    /\ \A i \in 1..Len(chars) : IsDigit(chars[i])
    /\ chars[1] # "0"

\* '$' also matches just before a newline that ends the string
BeforeDollar(chars) ==
    IF Len(chars) >= 1 /\ chars[Len(chars)] = "\n"
    THEN SubSeq(chars, 1, Len(chars) - 1)
    ELSE chars

\* the positions of the separator at which ^([1-9][0-9]*)<sep>([1-9][0-9]*)$
\* matches (at most one)
MatchRatio(chars, sep) ==
    LET body == BeforeDollar(chars)
    IN  {i \in 1..Len(body) :
            /\ body[i] = sep
            /\ MatchPositive(SubSeq(body, 1, i - 1))
            /\ MatchPositive(SubSeq(body, i + 1, Len(body)))}

RatioAt(chars, i) ==
    LET body == BeforeDollar(chars)
    IN  Rat(ToInt(SubSeq(body, 1, i - 1)),
            ToInt(SubSeq(body, i + 1, Len(body))))

evaluate_ratio(ratio_str) ==
    IF MatchRatio(ratio_str, ":") # {}
    THEN Present(RatioAt(ratio_str, CHOOSE i \in MatchRatio(ratio_str, ":") : TRUE))
    ELSE IF MatchRatio(ratio_str, "/") # {}
    THEN Present(RatioAt(ratio_str, CHOOSE i \in MatchRatio(ratio_str, "/") : TRUE))
    ELSE None

----------------------------------------------------------------------------
(* Video._process_stream *)

\* Stream.__init__
NewStream ==
    [index |-> None, type |-> None, codec |-> None, info_string |-> None,
     bit_rate |-> None, bit_rate_text |-> None, language_code |-> None,
     height |-> None, width |-> None, dimension |-> None,
     dimension_text |-> None, frame_rate |-> None, frame_rate_text |-> None,
     dar |-> None, dar_text |-> None]

\* the fields of a Video that _process_stream reads and writes, as
\* Video.__init__ leaves them before _extract_streams
NewVideoFields ==
    [dimension |-> None, dimension_text |-> None, dar |-> None,
     dar_text |-> None, frame_rate |-> None, frame_rate_text |-> None]

\* "%s" % value
Str(value) == IF value = None THEN "None" ELSE value[1]

\* the truth value of an optional text
Truthy(value) == value # None /\ value[1] # ""

CodecNameIs(stream, name) == Join(stream.codec_name[1]) = name

VideoCodec(stream) ==
    IF stream.codec_name = Absent THEN "unknown codec"
    ELSE IF CodecNameIs(stream, "h264")
    THEN IF stream.profile # Absent /\ stream.level # Absent
         THEN "H.264 (" \o stream.profile[1] \o " Profile level "
                  \o FormatFixed(Rat(stream.level[1], 10), 1) \o ")"
         ELSE "H.264"
    ELSE IF CodecNameIs(stream, "mpeg2video")
    THEN IF stream.profile # Absent
         THEN "MPEG-2 video (" \o stream.profile[1] \o " Profile)"
         ELSE "MPEG-2 video"
    ELSE IF CodecNameIs(stream, "mpeg4")
    THEN IF stream.profile # Absent
         THEN "MPEG-4 Part 2 (" \o stream.profile[1] \o ")"
         ELSE "MPEG-4 Part 2"
    ELSE IF CodecNameIs(stream, "mjpeg") THEN "MJPEG"
    ELSE Join(upper(stream.codec_name[1]))

AudioCodec(stream) ==
    IF stream.codec_name = Absent THEN "unknown codec"
    ELSE IF CodecNameIs(stream, "aac")
    THEN IF stream.profile # Absent
         THEN "AAC (" \o (IF stream.profile[1] = "LC" THEN "Low Complexity"
                          ELSE stream.profile[1]) \o ")"
         ELSE "AAC"
    ELSE IF CodecNameIs(stream, "ac3") THEN "Dolby AC-3"
    ELSE IF CodecNameIs(stream, "mp3") THEN "MP3"
    ELSE Join(upper(stream.codec_name[1]))

SubtitleCodec(stream) ==
    IF stream.codec_name = Absent
    THEN IF stream.codec_tag_string = Present("c608") THEN "EIA-608"
         ELSE "unknown codec"
    ELSE IF CodecNameIs(stream, "srt") THEN "SubRip"
    ELSE IF CodecNameIs(stream, "ass") THEN "ASS"
    ELSE Join(upper(stream.codec_name[1]))

\* stream['tags']['language'], else stream['tags']['LANGUAGE']
LanguageCode(stream) ==
    IF stream.tags = Absent THEN None
    ELSE IF stream.tags[1].language # Absent THEN stream.tags[1].language
    ELSE IF stream.tags[1].LANGUAGE # Absent THEN stream.tags[1].LANGUAGE
    ELSE None

\* display aspect ratio of a video stream: value and text
StreamDar(stream) ==
    IF stream.display_aspect_ratio # Absent
    THEN LET dar == evaluate_ratio(stream.display_aspect_ratio[1])
         IN  [dar |-> dar,
              dar_text |-> IF dar # None
                           THEN Present(Join(stream.display_aspect_ratio[1]))
                           ELSE None]
    ELSE LET gcd == GCD(stream.width, stream.height)
             reduced_width == stream.width \div gcd
             reduced_height == stream.height \div gcd
         IN  [dar |-> Present(Rat(reduced_width, reduced_height)),
              dar_text |-> Present(ToString(reduced_width) \o ":"
                                       \o ToString(reduced_height))]

StreamFrameRate(stream) ==
    IF stream.r_frame_rate # Absent
    THEN evaluate_ratio(stream.r_frame_rate[1])
    ELSE IF stream.avg_frame_rate # Absent
    THEN evaluate_ratio(stream.avg_frame_rate[1])
    ELSE None

\* int(fps) of a positive fps
IntPart(fps) == fps[1] \div fps[2]

FrameRateText(frame_rate) ==
    IF frame_rate = None THEN None
    ELSE LET fps == frame_rate[1]
         IN  IF RatLess(RatAdd(fps, Rat(-IntPart(fps), 1)), Rat(1, 10000))
             THEN Present(ToString(IntPart(fps)) \o " fps")
             ELSE Present(FormatFixed(fps, 2) \o " fps")

BitRate(stream) ==
    IF stream.bit_rate # Absent
    THEN Present(Rat(ToInt(stream.bit_rate[1]), 1))
    ELSE None

BitRateText(bit_rate) ==
    IF bit_rate # None
    THEN Present(ToString(RoundHalfEven(bit_rate[1][1], 1000 * bit_rate[1][2]))
                     \o " kb/s")
    ELSE None

\* the Stream object of a video stream
VideoStream(stream) ==
    LET dimension_text == ToString(stream.width) \o "x" \o ToString(stream.height)
        d == StreamDar(stream)
        frame_rate == StreamFrameRate(stream)
        frame_rate_text == FrameRateText(frame_rate)
        bit_rate == BitRate(stream)
        bit_rate_text == BitRateText(bit_rate)
        codec == VideoCodec(stream)
        info1 == "Video, " \o codec \o ", " \o dimension_text
                     \o " (DAR " \o Str(d.dar_text) \o ")"
        info2 == IF Truthy(frame_rate_text)
                 THEN info1 \o ", " \o frame_rate_text[1] ELSE info1
        info3 == IF Truthy(bit_rate_text)
                 THEN info2 \o ", " \o bit_rate_text[1] ELSE info2
    IN  [NewStream EXCEPT
            !.index = Present(stream.index),
            !.type = Present("video"),
            !.codec = Present(codec),
            !.width = Present(stream.width),
            !.height = Present(stream.height),
            !.dimension = Present(<<stream.width, stream.height>>),
            !.dimension_text = Present(dimension_text),
            !.dar = d.dar,
            !.dar_text = d.dar_text,
            !.frame_rate = frame_rate,
            !.frame_rate_text = frame_rate_text,
            !.bit_rate = bit_rate,
            !.bit_rate_text = bit_rate_text,
            !.info_string = Present(info3)]

\* the Video fields after a video stream s: each of dimension, DAR and frame
\* rate is copied from s when the Video's own value is still None
UpdateVideo(self, s) ==
    [dimension |-> IF self.dimension = None THEN s.dimension
                   ELSE self.dimension,
     dimension_text |-> IF self.dimension = None THEN s.dimension_text
                        ELSE self.dimension_text,
     dar |-> IF self.dar = None THEN s.dar ELSE self.dar,
     dar_text |-> IF self.dar = None THEN s.dar_text ELSE self.dar_text,
     frame_rate |-> IF self.frame_rate = None THEN s.frame_rate
                    ELSE self.frame_rate,
     frame_rate_text |-> IF self.frame_rate = None THEN s.frame_rate_text
                         ELSE self.frame_rate_text]

\* what _process_stream leaves for a video stream whose Stream object is s
VideoResult(self, s) == [self |-> UpdateVideo(self, s), s |-> s]

ProcessVideoStream(self, stream) == VideoResult(self, VideoStream(stream))

ProcessAudioStream(self, stream) ==
    LET codec == AudioCodec(stream)
        bit_rate == BitRate(stream)
        bit_rate_text == BitRateText(bit_rate)
        language_code == LanguageCode(stream)
        info1 == IF Truthy(language_code)
                 THEN "Audio (" \o language_code[1] \o "), " \o codec
                 ELSE "Audio, " \o codec
        info2 == IF Truthy(bit_rate_text)
                 THEN info1 \o ", " \o bit_rate_text[1] ELSE info1
    IN  [self |-> self,
         s |-> [NewStream EXCEPT
                   !.index = Present(stream.index),
                   !.type = Present("audio"),
                   !.codec = Present(codec),
                   !.bit_rate = bit_rate,
                   !.bit_rate_text = bit_rate_text,
                   !.language_code = language_code,
                   !.info_string = Present(info2)]]

ProcessSubtitleStream(self, stream) ==
    LET codec == SubtitleCodec(stream)
        language_code == LanguageCode(stream)
    IN  [self |-> self,
         s |-> [NewStream EXCEPT
                   !.index = Present(stream.index),
                   !.codec = Present(codec),
                   !.language_code = language_code,
                   !.info_string =
                       Present(IF Truthy(language_code)
                               THEN "Subtitle (" \o language_code[1] \o "), "
                                        \o codec
                               ELSE "Subtitle, " \o codec)]]

\* the Stream object returned, and the Video fields after the call
process_stream(self, stream) ==
    IF stream.codec_type = Absent
    THEN [self |-> self,
          s |-> [NewStream EXCEPT !.index = Present(stream.index),
                                  !.type = Present("unknown"),
                                  !.info_string = Present("Data")]]
    ELSE IF stream.codec_type[1] = "video" THEN ProcessVideoStream(self, stream)
    ELSE IF stream.codec_type[1] = "audio" THEN ProcessAudioStream(self, stream)
    ELSE IF stream.codec_type[1] = "subtitle"
    THEN ProcessSubtitleStream(self, stream)
    ELSE [self |-> self,
          s |-> [NewStream EXCEPT !.index = Present(stream.index),
                                  !.type = stream.codec_type,
                                  !.info_string = Present("Data")]]

----------------------------------------------------------------------------
(* _process_stream on its own, over bounded probe streams *)

RawStream ==
    [index |-> 0, codec_type |-> Absent, codec_name |-> Absent,
     profile |-> Absent, level |-> Absent, width |-> 0, height |-> 0,
     display_aspect_ratio |-> Absent, r_frame_rate |-> Absent,
     avg_frame_rate |-> Absent, bit_rate |-> Absent,
     codec_tag_string |-> Absent, tags |-> Absent]

RawVideoStreams ==
    {[RawStream EXCEPT
         !.codec_type = Present("video"),
         !.codec_name = codec_name,
         !.profile = pl[1],
         !.level = pl[2],
         !.width = size[1],
         !.height = size[2],
         !.display_aspect_ratio = dar,
         !.r_frame_rate = r_frame_rate,
         !.avg_frame_rate = avg_frame_rate,
         !.bit_rate = bit_rate] :
        codec_name \in {Absent, Present(<<"h", "2", "6", "4">>),
                        Present(<<"v", "p", "9">>)},
        pl \in {<<Absent, Absent>>, <<Present("High"), Absent>>,
                <<Present("High"), Present(41)>>},
        size \in {<<1920, 1080>>, <<720, 576>>},
        dar \in {Absent, Present(<<"1", "6", ":", "9">>),
                 Present(<<"0", ":", "1">>), Present(<<"4", "/", "3", "\n">>)},
        r_frame_rate \in
            {Absent, Present(<<"3", "0", "/", "1">>),
             Present(<<"3", "0", "0", "0", "0", "/", "1", "0", "0", "1">>),
             Present(<<"5", "9", "9", "9", "9", "9", "/", "2", "0", "0", "0", "0">>),
             Present(<<"6", "0", "0", "0", "0", "1", "/", "2", "0", "0", "0", "0">>),
             Present(<<"0", "/", "0">>)},
        avg_frame_rate \in {Absent, Present(<<"2", "5", "/", "1">>)},
        bit_rate \in {Absent, Present(<<"2", "5", "0", "0", "5", "0", "0">>)}}

RawTags ==
    {Absent,
     Present([language |-> Absent, LANGUAGE |-> Absent]),
     Present([language |-> Present("eng"), LANGUAGE |-> Present("ENG")]),
     Present([language |-> Absent, LANGUAGE |-> Present("fre")]),
     Present([language |-> Present(""), LANGUAGE |-> Present("und")])}

RawAudioStreams ==
    {[RawStream EXCEPT
         !.codec_type = Present("audio"),
         !.codec_name = codec_name,
         !.profile = profile,
         !.bit_rate = bit_rate,
         !.tags = tags] :
        codec_name \in {Absent, Present(<<"a", "a", "c">>),
                        Present(<<"a", "c", "3">>), Present(<<"m", "p", "3">>),
                        Present(<<"f", "l", "a", "c">>)},
        profile \in {Absent, Present("LC"), Present("HE-AAC")},
        bit_rate \in {Absent, Present(<<"1", "2", "8", "0", "0", "0">>)},
        tags \in RawTags}

RawSubtitleStreams ==
    {[RawStream EXCEPT
         !.codec_type = Present("subtitle"),
         !.codec_name = codec_name,
         !.codec_tag_string = codec_tag_string,
         !.tags = tags] :
        codec_name \in {Absent, Present(<<"s", "r", "t">>),
                        Present(<<"a", "s", "s">>),
                        Present(<<"m", "o", "v", "_", "t", "e", "x", "t">>)},
        codec_tag_string \in {Absent, Present("c608"), Present("tx3g")},
        tags \in RawTags}

RawOtherStreams ==
    {[RawStream EXCEPT !.codec_type = codec_type] :
        codec_type \in {Absent, Present("data"), Present("attachment")}}

RawStreams ==
    RawVideoStreams \cup RawAudioStreams \cup RawSubtitleStreams
        \cup RawOtherStreams

InitStream ==
    /\ Pinned
    /\ meta = "idle"
    /\ cli = "idle"
    /\ \E stream \in RawStreams :
           call = [fn |-> "_process_stream", arg |-> stream, called |-> FALSE,
                   res |-> [self |-> NewVideoFields, s |-> NewStream]]

CallProcessStream ==
    /\ ~call.called
    /\ call' = [call EXCEPT !.called = TRUE,
                            !.res = process_stream(NewVideoFields, call.arg)]
    /\ UNCHANGED <<video, frames, failed_idx, last, tile_call, thumb_call,
                   meta, cli>>

NextStream == CallProcessStream

SpecStream == InitStream /\ [][NextStream]_vars

PS_Video == call.called /\ call.arg.codec_type = Present("video")

\* C12: a video stream's DAR is the probe's display_aspect_ratio when that
\* string parses as a ratio of positive integers; when the field is absent or
\* fails to parse, it is width:height reduced by their GCD; every video
\* stream has a DAR value and a DAR text.
C12_DarNeverAbsent ==
    PS_Video =>
        LET stream == call.arg
            s == call.res.s
            g == GCD(stream.width, stream.height)
            parsed == IF stream.display_aspect_ratio = Absent THEN None
                      ELSE evaluate_ratio(stream.display_aspect_ratio[1])
        IN  /\ s.dar # None
            /\ s.dar_text # None
            /\ parsed # None =>
                   /\ s.dar = parsed
                   /\ s.dar_text = Present(Join(stream.display_aspect_ratio[1]))
            /\ parsed = None =>
                   /\ s.dar = Present(Rat(stream.width \div g, stream.height \div g))
                   /\ s.dar_text = Present(ToString(stream.width \div g) \o ":"
                                               \o ToString(stream.height \div g))

\* C20: for a parsed frame rate fps, frame_rate_text is "N fps" with N the
\* nearest integer exactly when |fps - N| < 0.0001, on either side of N, and
\* the two-decimal form otherwise.
C20_IntegerFormBothSides ==
    (PS_Video /\ call.res.s.frame_rate # None) =>
        LET fps == call.res.s.frame_rate[1]
            N == RoundHalfEven(fps[1], fps[2])
            diff == RatAdd(fps, Rat(-N, 1))
            near == RatLess(Rat(Abs(diff[1]), diff[2]), Rat(1, 10000))
        IN  call.res.s.frame_rate_text =
                IF near THEN Present(ToString(N) \o " fps")
                ELSE Present(FormatFixed(fps, 2) \o " fps")

----------------------------------------------------------------------------
(* Video: construction, compute_sha1sum, pretty_print_metadata *)

\* float() of a decimal string: digits, optionally a point and digits
ParseFloat(chars) ==
    IF \E i \in 1..Len(chars) : chars[i] = "."
    THEN LET dot == CHOOSE i \in 1..Len(chars) : chars[i] = "."
         IN  Rat(ToInt(SubSeq(chars, 1, dot - 1) \o SubSeq(chars, dot + 1, Len(chars))),
                 Pow10(Len(chars) - dot))
    ELSE Rat(ToInt(chars), 1)

\* the minutes not reduced modulo 60
duration_human_m(t) ==
    LET int_t == t[1] \div t[2]
        hh == int_t \div 3600
        mm == int_t \div 60
        ss == RatAdd(t, Rat(-((int_t \div 60) * 60), 1))
        scaled == RoundHalfEven(ss[1] * 100, ss[2])
    IN  Pad(hh, 2) \o ":" \o Pad(mm, 2) \o ":"
            \o Pad(scaled \div 100, 2) \o "." \o Pad(scaled % 100, 2)

\* "%02d:%02d:%05.2f" % (hh, mm, ss)
duration_human(t) ==
    LET int_t == t[1] \div t[2]
        hh == int_t \div 3600
        mm == (int_t \div 60) % 60
        ss == RatAdd(t, Rat(-((int_t \div 60) * 60), 1))
        scaled == RoundHalfEven(ss[1] * 100, ss[2])
    IN  Pad(hh, 2) \o ":" \o Pad(mm, 2) \o ":"
            \o Pad(scaled \div 100, 2) \o "." \o Pad(scaled % 100, 2)

\* the exception that ends Video.__init__ before any attribute is extracted,
\* or "none": the path check, then the first ffprobe call and json.loads
ConstructExc(path_exists, returncode, parsable) ==
    IF ~path_exists THEN "OSError"
    ELSE IF returncode # 0 THEN "OSError"
    ELSE IF ~parsable THEN "ValueError"
    ELSE "none"

\* the number of ffprobe invocations of one construction
ProbeCalls(path_exists, returncode, parsable) ==
    IF ~path_exists THEN 0
    ELSE IF returncode # 0 \/ ~parsable THEN 1
    ELSE 2

\* Video.__init__ with a second attempt at a failed probe
ConstructSteps_m(path_exists, returncode, parsable) ==
    IF ~path_exists THEN <<"exists">>
    ELSE IF returncode # 0 THEN <<"exists", "ffprobe path", "ffprobe path">>
    ELSE IF ~parsable THEN <<"exists", "ffprobe path">>
    ELSE <<"exists", "ffprobe path", "extract format", "read head",
           "ffprobe head", "extract streams">>

\* the steps of one construction, in the order of Video.__init__:
\* os.path.exists, _call_ffprobe on the path, _extract_title/_size/_duration,
\* the read of the first 1000000 bytes and the ffprobe call on them in
\* _extract_scan_type, _extract_streams; an exception ends the list
ConstructSteps(path_exists, returncode, parsable) ==
    IF ~path_exists THEN <<"exists">>
    ELSE IF returncode # 0 THEN <<"exists", "ffprobe path">>
    ELSE IF ~parsable THEN <<"exists", "ffprobe path">>
    ELSE <<"exists", "ffprobe path", "extract format", "read head",
           "ffprobe head", "extract streams">>

\* self.streams.append(self._process_stream(stream)), r being the result of
\* _process_stream
AppendStream(acc, r) == [self |-> r.self, streams |-> Append(acc.streams, r.s)]

\* the loop of _extract_streams from stream i on; acc holds the Video
\* fields and the list self.streams
RECURSIVE ExtractStreams(_, _, _)
ExtractStreams(acc, raw, i) ==
    IF i > Len(raw) THEN acc
    ELSE ExtractStreams(AppendStream(acc, process_stream(acc.self, raw[i])),
                        raw, i + 1)

NoVideo ==
    [title |-> None, size |-> [m |-> 0, e |-> 0], size_human |-> "",
     duration |-> Rat(0, 1), duration_human |-> "", scan_type |-> "",
     sha1sum |-> None, fields |-> NewVideoFields, streams |-> <<>>]

\* the attributes of a Video built from the probe's output; r is the result
\* of _extract_streams and t the duration
BuiltVideo(env, t, r) ==
    [title |-> env.format.title,
     size |-> env.format.size,
     size_human |-> size_human(env.format.size).text,
     duration |-> t,
     duration_human |-> duration_human(t),
     scan_type |-> IF env.interlaced THEN "Interlaced scan"
                   ELSE "Progressive scan",
     sha1sum |-> None,
     fields |-> r.self,
     streams |-> r.streams]

\* Video.__init__ in the environment env: the exception raised, the number
\* of ffprobe invocations and the attributes of the object
VideoInit(env) ==
    [exc |-> ConstructExc(env.path_exists, env.returncode, env.parsable),
     probes |-> ProbeCalls(env.path_exists, env.returncode, env.parsable),
     steps |-> ConstructSteps(env.path_exists, env.returncode, env.parsable),
     v |-> IF ConstructExc(env.path_exists, env.returncode, env.parsable) # "none"
           THEN NoVideo
           ELSE BuiltVideo(env, ParseFloat(env.format.duration),
                           ExtractStreams([self |-> NewVideoFields,
                                           streams |-> <<>>],
                                          env.streams, 1))]

\* _extract_sha1sum: "ok" reads the file at once, "retry" gets OSError at the
\* first read and reads in chunks, "error" fails both times
ExtractSha1sum(m, outcome) ==
    IF outcome = "ok"
    THEN [m EXCEPT !.v.sha1sum = Present(m.file), !.reads = m.reads + 1]
    ELSE IF outcome = "retry"
    THEN [m EXCEPT !.v.sha1sum = Present(m.file), !.reads = m.reads + 2]
    ELSE [m EXCEPT !.reads = m.reads + 2, !.exc = "OSError"]

\* the digest computed anew at every request
compute_sha1sum_m(m, outcome) == ExtractSha1sum(m, outcome)

\* if not self.sha1sum: self._extract_sha1sum()
compute_sha1sum(m, outcome) ==
    IF m.v.sha1sum = None THEN ExtractSha1sum(m, outcome) ELSE m

PoolStreams ==
    <<[RawStream EXCEPT
          !.codec_type = Present("video"),
          !.codec_name = Present(<<"h", "2", "6", "4">>),
          !.width = 1920, !.height = 1080,
          !.display_aspect_ratio = Present(<<"1", "6", ":", "9">>),
          !.r_frame_rate = Present(<<"3", "0", "/", "1">>)],
      [RawStream EXCEPT
          !.codec_type = Present("video"),
          !.width = 720, !.height = 576,
          !.display_aspect_ratio = Present(<<"0", ":", "1">>)],
      [RawStream EXCEPT
          !.codec_type = Present("video"),
          !.codec_name = Present(<<"m", "j", "p", "e", "g">>),
          !.width = 640, !.height = 480,
          !.avg_frame_rate = Present(<<"2", "5", "/", "1">>)],
      [RawStream EXCEPT
          !.codec_type = Present("audio"),
          !.codec_name = Present(<<"a", "a", "c">>),
          !.bit_rate = Present(<<"1", "2", "8", "0", "0", "0">>)]>>

\* the probe's stream lists: streams of the pool, numbered in probe order
StreamLists ==
    UNION {{[i \in 1..n |-> [PoolStreams[ks[i]] EXCEPT !.index = i - 1]] :
               ks \in [1..n -> 1..Len(PoolStreams)]} : n \in 0..MaxStreams}

Formats ==
    {[title |-> Absent, size |-> [m |-> 1536, e |-> 0],
      duration |-> <<"3", "6", "6", "1", ".", "5">>],
     [title |-> Present("Movie"), size |-> [m |-> 700, e |-> 2],
      duration |-> <<"9", "0">>]}

NoFormat ==
    [title |-> Absent, size |-> [m |-> 0, e |-> 0], duration |-> <<"0">>]

\* what a construction meets: the path, the first ffprobe call's exit status
\* and output, the second call's verdict
Envs ==
    {[path_exists |-> TRUE, returncode |-> 0, parsable |-> TRUE,
      format |-> format, interlaced |-> interlaced, streams |-> streams] :
        format \in Formats, interlaced \in BOOLEAN, streams \in StreamLists}
    \cup
    {[path_exists |-> pr[1], returncode |-> pr[2], parsable |-> pr[3],
      format |-> NoFormat, interlaced |-> FALSE, streams |-> <<>>] :
        pr \in {<<FALSE, 0, TRUE>>, <<FALSE, 1, FALSE>>, <<TRUE, 1, TRUE>>,
                <<TRUE, 1, FALSE>>, <<TRUE, 0, FALSE>>}}

InitVideo ==
    /\ Pinned
    /\ cli = "idle"
    /\ call = "idle"
    /\ \E env \in Envs :
           meta = [phase |-> "new", env |-> env, exc |-> "none", probes |-> 0,
                   steps |-> <<>>, v |-> NoVideo, file |-> 1, reads |-> 0, ops |-> 0,
                   op |-> "none", include_sha1sum |-> FALSE]

UnchangedButMeta ==
    UNCHANGED <<video, frames, failed_idx, last, tile_call, thumb_call, cli,
                call>>

\* the record of a construction with result r
AfterInit(m, r) ==
    [m EXCEPT !.phase = IF r.exc = "none" THEN "built" ELSE "failed",
              !.exc = r.exc, !.probes = r.probes, !.steps = r.steps,
              !.v = r.v,
              !.op = "__init__"]

\* Video(path)
Construct ==
    /\ meta.phase = "new"
    /\ meta' = AfterInit(meta, VideoInit(meta.env))
    /\ UnchangedButMeta

\* v.compute_sha1sum()
ComputeSha1sum(outcome) ==
    /\ meta.phase = "built"
    /\ meta.ops < MaxOps
    /\ meta' = [compute_sha1sum([meta EXCEPT !.exc = "none"], outcome) EXCEPT
                   !.ops = meta.ops + 1, !.op = "compute_sha1sum",
                   !.include_sha1sum = TRUE]
    /\ UnchangedButMeta

\* v.pretty_print_metadata(include_sha1sum)
PrettyPrintMetadata(include_sha1sum, outcome) ==
    /\ meta.phase = "built"
    /\ meta.ops < MaxOps
    /\ meta' = [(IF include_sha1sum
                 THEN compute_sha1sum([meta EXCEPT !.exc = "none"], outcome)
                 ELSE [meta EXCEPT !.exc = "none"]) EXCEPT
                   !.ops = meta.ops + 1, !.op = "pretty_print_metadata",
                   !.include_sha1sum = include_sha1sum]
    /\ UnchangedButMeta

\* another process rewrites the video file
ModifyFile ==
    /\ meta.phase = "built"
    /\ meta.ops < MaxOps
    /\ meta.file < MaxVersions
    /\ meta' = [meta EXCEPT !.file = meta.file + 1, !.ops = meta.ops + 1,
                            !.op = "modify", !.exc = "none"]
    /\ UnchangedButMeta

ReadOutcomes == {"ok", "retry", "error"}

NextVideo ==
    \/ Construct
    \/ \E outcome \in ReadOutcomes : ComputeSha1sum(outcome)
    \/ \E include_sha1sum \in BOOLEAN, outcome \in ReadOutcomes :
           PrettyPrintMetadata(include_sha1sum, outcome)
    \/ ModifyFile

SpecVideo == InitVideo /\ [][NextVideo]_vars


V_Built == meta.phase = "built"

V_VideoStreams ==
    {i \in 1..Len(meta.env.streams) :
        meta.env.streams[i].codec_type = Present("video")}

\* C11: after construction the Video's dimension, DAR and frame rate (with
\* their texts) are those of the first video stream in probe order, also when
\* that stream's DAR or frame rate is absent, and are absent when there is no
\* video stream.
C11_FirstVideoStreamOnly ==
    V_Built =>
        IF V_VideoStreams = {} THEN meta.v.fields = NewVideoFields
        ELSE LET first == meta.v.streams[CHOOSE i \in V_VideoStreams :
                                            \A j \in V_VideoStreams : i <= j]
             IN  /\ meta.v.fields.dimension = first.dimension
                 /\ meta.v.fields.dimension_text = first.dimension_text
                 /\ meta.v.fields.dar = first.dar
                 /\ meta.v.fields.dar_text = first.dar_text
                 /\ meta.v.fields.frame_rate = first.frame_rate
                 /\ meta.v.fields.frame_rate_text = first.frame_rate_text

V_Sha1Request ==
    /\ meta'.op \in {"compute_sha1sum", "pretty_print_metadata"}
    /\ meta'.include_sha1sum

\* C13: sha1sum is absent after construction and stays absent under
\* pretty_print_metadata(include_sha1sum=False); the first request for the
\* digest that returns reads the file and sets it; once set, no request reads
\* the file again and the value never changes.
C13_Sha1LazyCached ==
    [][/\ (meta'.op = "__init__" /\ meta'.phase = "built")
              => (meta'.v.sha1sum = None /\ meta'.reads = 0)
       /\ (meta'.op = "pretty_print_metadata" /\ ~meta'.include_sha1sum)
              => (meta'.v.sha1sum = meta.v.sha1sum /\ meta'.reads = meta.reads)
       /\ (V_Sha1Request /\ meta.v.sha1sum = None /\ meta'.exc = "none")
              => (meta'.v.sha1sum = Present(meta.file) /\ meta'.reads > meta.reads)
       /\ (V_Built /\ meta.v.sha1sum # None)
              => (meta'.v.sha1sum = meta.v.sha1sum /\ meta'.reads = meta.reads)
      ]_vars

\* the digest was read once, the file was rewritten, and a later request for
\* the digest has returned the cached value
C13_Witness ==
    /\ V_Built
    /\ meta.op \in {"compute_sha1sum", "pretty_print_metadata"}
    /\ meta.include_sha1sum
    /\ meta.ops = 3
    /\ meta.reads = 1
    /\ meta.v.sha1sum = Present(1)
    /\ meta.file = 2

\* C15: construction fails with OSError, and produces no Video, both when
\* the first prober invocation exits nonzero and when it exits zero with
\* output that cannot be parsed.
C15_ProbeFailureIsOSError ==
    (/\ meta.op = "__init__"
     /\ meta.env.path_exists
     /\ (meta.env.returncode # 0 \/ ~meta.env.parsable))
    => (meta.phase = "failed" /\ meta.exc = "OSError" /\ meta.v = NoVideo)

----------------------------------------------------------------------------
(* The command line interfaces: main of storyboard.py and of metadata.py *)

\* what the run meets for one video path
Fates ==
    {[path_exists |-> f[1], returncode |-> f[2], parsable |-> f[3],
      extract_ok |-> f[4]] :
        f \in {<<TRUE, 0, TRUE, TRUE>>, <<FALSE, 0, TRUE, TRUE>>,
               <<TRUE, 1, TRUE, TRUE>>, <<TRUE, 0, FALSE, TRUE>>,
               <<TRUE, 0, TRUE, FALSE>>}}

InitMain ==
    /\ Pinned
    /\ meta = "idle"
    /\ call = "idle"
    /\ \E program \in {"storyboard", "metadata"}, bins_ok \in BOOLEAN,
          n \in 1..MaxVideos :
         \E videos \in [1..n -> Fates] :
           /\ program = "metadata" => bins_ok
           /\ cli = [program |-> program, bins_ok |-> bins_ok,
                     videos |-> videos, i |-> 1, attempted |-> {},
                     reported |-> {}, printed |-> {}, returncode |-> 0,
                     status |-> IF program = "storyboard" THEN "start"
                                ELSE "loop",
                     exc |-> "none"]

UnchangedButCli ==
    UNCHANGED <<video, frames, failed_idx, last, tile_call, thumb_call, meta,
                call>>

\* storyboard.py main: fflocate.check_bins
CheckBins ==
    /\ cli.status = "start"
    /\ cli' = IF cli.bins_ok THEN [cli EXCEPT !.status = "loop"]
              ELSE [cli EXCEPT !.status = "returned", !.returncode = 1]
    /\ UnchangedButCli

\* one iteration of the loop of storyboard.py main
StoryboardVideo ==
    /\ cli.program = "storyboard"
    /\ cli.status = "loop"
    /\ cli.i <= Len(cli.videos)
    /\ LET f == cli.videos[cli.i]
           exc == ConstructExc(f.path_exists, f.returncode, f.parsable)
           c == [cli EXCEPT !.attempted = cli.attempted \cup {cli.i}]
       IN  cli' = IF exc = "OSError"
                  THEN [c EXCEPT !.reported = cli.reported \cup {cli.i},
                                 !.returncode = 1, !.i = cli.i + 1]
                  ELSE IF exc # "none"
                  THEN [c EXCEPT !.status = "crashed", !.exc = exc]
                  ELSE IF ~f.extract_ok
                  THEN [c EXCEPT !.status = "crashed", !.exc = "OSError"]
                  ELSE [c EXCEPT !.printed = cli.printed \cup {cli.i},
                                 !.i = cli.i + 1]
    /\ UnchangedButCli

\* one iteration of the loop of metadata.py main
MetadataVideo ==
    /\ cli.program = "metadata"
    /\ cli.status = "loop"
    /\ cli.i <= Len(cli.videos)
    /\ LET f == cli.videos[cli.i]
           exc == ConstructExc(f.path_exists, f.returncode, f.parsable)
           c == [cli EXCEPT !.attempted = cli.attempted \cup {cli.i}]
       IN  cli' = IF exc # "none"
                  THEN [c EXCEPT !.status = "crashed", !.exc = exc]
                  ELSE [c EXCEPT !.printed = cli.printed \cup {cli.i},
                                 !.i = cli.i + 1]
    /\ UnchangedButCli

\* the loop is over: main returns
Return ==
    /\ cli.status = "loop"
    /\ cli.i > Len(cli.videos)
    /\ cli' = [cli EXCEPT !.status = "returned"]
    /\ UnchangedButCli

NextMain == CheckBins \/ StoryboardVideo \/ MetadataVideo \/ Return

SpecMain == InitMain /\ [][NextMain]_vars

\* the process ends with a nonzero status: main returned nonzero, or an
\* exception left main
ExitFailure == cli.status = "crashed" \/ cli.returncode # 0

\* the video cannot be processed by the program
VideoFails(program, f) ==
    \/ ConstructExc(f.path_exists, f.returncode, f.parsable) # "none"
    \/ program = "storyboard" /\ ~f.extract_ok

\* C14: in a batch run every listed video is attempted whatever happened to
\* the earlier ones (missing path, probe failure, frame-extraction failure),
\* and the exit status is failure if and only if at least one video failed.
C14_AllVideosAttempted ==
    (cli.status \in {"returned", "crashed"} /\ cli.bins_ok) =>
        /\ cli.attempted = 1..Len(cli.videos)
        /\ ExitFailure <=>
               \E i \in 1..Len(cli.videos) : VideoFails(cli.program, cli.videos[i])

----------------------------------------------------------------------------
(* Further properties of gen_frames and tile_images *)

\* C25: when frames already holds exactly count frames, gen_frames(count)
\* invokes the frame extractor zero times and leaves frames unchanged.
C25_RepeatedCountIsNoOp ==
    [][(last'.op = "gen_frames" /\ Len(frames) = last'.count)
           => (frames' = frames /\ last'.requested = <<>>
               /\ last'.exc = "none")]_vars

\* gen_frames(count) has returned on a StoryBoard that held count >= 1
\* frames
C25_Witness ==
    /\ last.op = "gen_frames"
    /\ last.count >= 1
    /\ last.before = last.count
    /\ Len(frames) = last.count
    /\ last.requested = <<>>


\* C28: when tile_images raises ValueError (length mismatch, or a Mode B
\* width or height mismatch) it has created no canvas, pasted nothing and
\* closed none of the input images, even when close_separate_images is true.
C28_RaiseHasNoEffect ==
    (tile_call.called /\ tile_call.res.exc = "ValueError") =>
        /\ tile_call.res.canvas = None
        /\ tile_call.res.pastes = <<>>
        /\ tile_call.res.events = <<>>
        /\ tile_call.res.closed = {}

\* a Mode B mismatch in a call that asks for the images to be closed
C28_Witness ==
    /\ tile_call.called
    /\ tile_call.res.exc = "ValueError"
    /\ ~LengthMismatch(tile_call.images, TC_cols, TC_rows)
    /\ ~TC_ModeA
    /\ tile_call.params.close_separate_images = Present(TRUE)
    /\ Len(tile_call.images) >= 2

----------------------------------------------------------------------------
(* Further properties of _process_stream *)

\* C23: the info string of a video stream is
\* "Video, {codec}, {W}x{H} (DAR {dar})", then ", {fps text}" exactly when
\* the frame rate is present, then ", {bit rate text}" exactly when the bit
\* rate is present; {dar} is a ratio text, never the printed form of an
\* absent value.
C23_VideoInfoString ==
    PS_Video =>
        LET s == call.res.s
        IN  /\ s.dar_text # None
            /\ s.info_string =
                   Present("Video, " \o s.codec[1] \o ", "
                               \o ToString(call.arg.width) \o "x"
                               \o ToString(call.arg.height)
                               \o " (DAR " \o s.dar_text[1] \o ")"
                               \o (IF s.frame_rate # None
                                   THEN ", " \o s.frame_rate_text[1] ELSE "")
                               \o (IF s.bit_rate # None
                                   THEN ", " \o s.bit_rate_text[1] ELSE ""))

\* C27: the Stream returned by _process_stream has its kind set: video, audio
\* or subtitle for those codec_type values, the codec_type verbatim for any
\* other value, unknown when codec_type is absent; streams of the last two
\* sorts have the info string "Data".
C27_KindAlwaysSet ==
    call.called =>
        LET s == call.res.s
            codec_type == call.arg.codec_type
        IN  /\ s.type # None
            /\ codec_type # Absent => s.type = codec_type
            /\ codec_type = Absent => s.type = Present("unknown")
            /\ (codec_type = Absent
                \/ codec_type[1] \notin {"video", "audio", "subtitle"})
                   => s.info_string = Present("Data")

----------------------------------------------------------------------------
(* _evaluate_ratio on its own, over bounded strings *)

RatioChars == {"0", "1", "2", "5", "6", "9", ":", "/", "-", ".", "\n"}

RatioStrings == UNION {[1..n -> RatioChars] : n \in 0..MaxRatioLen}

InitRatio ==
    /\ Pinned
    /\ meta = "idle"
    /\ cli = "idle"
    /\ \E ratio_str \in RatioStrings :
           call = [fn |-> "_evaluate_ratio", arg |-> ratio_str,
                   called |-> FALSE, exc |-> "none", res |-> None]

CallEvaluateRatio ==
    /\ ~call.called
    /\ call' = [call EXCEPT !.called = TRUE,
                            !.res = evaluate_ratio(call.arg)]
    /\ UNCHANGED <<video, frames, failed_idx, last, tile_call, thumb_call,
                   meta, cli>>

NextRatio == CallEvaluateRatio

SpecRatio == InitRatio /\ [][NextRatio]_vars

\* the string is a decimal numeral of a positive integer
ER_Positive(chars) ==
    /\ chars # <<>>
    /\ \A i \in 1..Len(chars) :
           chars[i] \in {"0", "1", "2", "3", "4", "5", "6", "7", "8", "9"}
    /\ chars[1] # "0"

\* the positions at which the string splits as N:D or N/D
ER_Splits ==
    {i \in 1..Len(call.arg) :
        /\ call.arg[i] \in {":", "/"}
        /\ ER_Positive(SubSeq(call.arg, 1, i - 1))
        /\ ER_Positive(SubSeq(call.arg, i + 1, Len(call.arg)))}

\* C22: _evaluate_ratio returns N/D for every string "N:D" or "N/D" with N
\* and D positive integers, and returns None, without raising, for every
\* other string.
C22_RatioOrAbsent ==
    call.called =>
        /\ call.exc = "none"
        /\ IF ER_Splits # {}
           THEN LET i == CHOOSE i \in ER_Splits : TRUE
                IN  call.res =
                        Present(Rat(ToInt(SubSeq(call.arg, 1, i - 1)),
                                    ToInt(SubSeq(call.arg, i + 1, Len(call.arg)))))
           ELSE call.res = None

----------------------------------------------------------------------------
(* Video._extract_duration on its own, over bounded durations *)

\* the decimal numeral of a natural number
RECURSIVE DecimalChars(_)
DecimalChars(n) ==
    IF n < 10 THEN <<DigitChars[n + 1]>>
    ELSE Append(DecimalChars(n \div 10), DigitChars[(n % 10) + 1])

\* format.duration for secs seconds and ms milliseconds: "<secs>.<mmm>"
DurationChars(secs, ms) ==
    DecimalChars(secs)
        \o <<".", DigitChars[(ms \div 100) + 1],
             DigitChars[((ms \div 10) % 10) + 1], DigitChars[(ms % 10) + 1]>>

DurationSeconds ==
    (0..MaxSeconds)
    \cup {59, 60, 61, 119, 3599, 3600, 3601, 3661, 7199, 86399, 360000}

\* whole milliseconds; a value ending in 5 is a tie of "%.2f" that the
\* binary float decides, and is left out
DurationMillis == {0, 1, 4, 6, 10, 499, 500, 994, 996, 999}

DurationInputs ==
    {[secs |-> secs, ms |-> ms, chars |-> DurationChars(secs, ms)] :
        secs \in DurationSeconds, ms \in DurationMillis}

InitDuration ==
    /\ Pinned
    /\ meta = "idle"
    /\ cli = "idle"
    /\ \E d \in DurationInputs :
           call = [fn |-> "_extract_duration", arg |-> d, called |-> FALSE,
                   res |-> [duration |-> Rat(0, 1), duration_human |-> ""]]

\* the two attributes that _extract_duration sets, t being self.duration
DurationAttributes(t) == [duration |-> t, duration_human |-> duration_human(t)]

CallExtractDuration ==
    /\ ~call.called
    /\ call' = [call EXCEPT
                   !.called = TRUE,
                   !.res = DurationAttributes(ParseFloat(call.arg.chars))]
    /\ UNCHANGED <<video, frames, failed_idx, last, tile_call, thumb_call,
                   meta, cli>>

NextDuration == CallExtractDuration

SpecDuration == InitDuration /\ [][NextDuration]_vars

\* the duration in whole milliseconds
DU_Millis == call.arg.secs * 1000 + call.arg.ms

\* a number below 100 in two digits
DU_Two(n) == IF n < 10 THEN "0" \o ToString(n) ELSE ToString(n)

\* the seconds field t - 60*floor(t/60), in hundredths, rounded to nearest
DU_Hundredths == ((DU_Millis - 60000 * (DU_Millis \div 60000)) + 5) \div 10

\* C21: duration_human is "HH:MM:SS.ss" with HH = floor(t/3600),
\* MM = floor(t/60) mod 60 and the seconds field t - 60*floor(t/60) printed
\* with two fractional digits, zero-padded to width 5; 3661.5 gives
\* "01:01:01.50".
C21_DurationHuman ==
    call.called =>
        /\ call.res.duration = Rat(DU_Millis, 1000)
        /\ call.res.duration_human =
               (LET hh == DU_Millis \div 3600000
                IN  IF hh < 100 THEN DU_Two(hh) ELSE ToString(hh))
               \o ":" \o DU_Two((DU_Millis \div 60000) % 60)
               \o ":" \o ToString(DU_Hundredths \div 1000)
                      \o ToString((DU_Hundredths \div 100) % 10)
               \o "." \o DU_Two(DU_Hundredths % 100)
        /\ (call.arg.secs = 3661 /\ call.arg.ms = 500)
               => call.res.duration_human = "01:01:01.50"

\* one hour, one minute, one second and a half
C21_Witness ==
    /\ call.called
    /\ call.arg.secs = 3661
    /\ call.arg.ms = 500
    /\ call.res.duration_human = "01:01:01.50"

\* "HH:MM:" as the duration requires it
DU_Prefix ==
    (LET hh == DU_Millis \div 3600000
     IN  IF hh < 100 THEN DU_Two(hh) ELSE ToString(hh))
    \o ":" \o DU_Two((DU_Millis \div 60000) % 60) \o ":"

\* C29: the minutes field of duration_human is between 00 and 59 and the
\* displayed seconds field is strictly below 60.00.
C29_SecondsBelowSixty ==
    call.called =>
        \E ss \in 0..59, cc \in 0..99 :
            call.res.duration_human =
                DU_Prefix \o DU_Two(ss) \o "." \o DU_Two(cc)


----------------------------------------------------------------------------
(* StoryBoard.storyboard: the assembly of the sections on one canvas *)

\* the largest horizontal and vertical padding drawn
MaxPadding == 2

\* self._draw_storyboard(...): the tiled grid, an image of the given size
draw_storyboard(size) == [name |-> "storyboard", size |-> size]

\* self._draw_meta_sheet(total_width, ...): the metadata text sheet, as wide
\* as the grid
draw_meta_sheet(total_width, height) ==
    [name |-> "meta_sheet", size |-> <<total_width, height>>]

\* self._draw_banner(total_width, ...): the banner, as wide as the grid
draw_banner(total_width, height) ==
    [name |-> "banner", size |-> <<total_width, height>>]

\* assembled.paste(image, at)
Paste(image, at) == [image |-> image.name, at |-> at, size |-> image.size]

\* storyboard() with the grid pasted at the top of the stack
storyboard_m(padding, include_banner, grid_size, sheet_height, banner_height) ==
    LET board == draw_storyboard(grid_size)
        total_width == board.size[1]
        meta_sheet == draw_meta_sheet(total_width, sheet_height)
        hp == padding[1]
        vp == padding[2]
    IN  IF include_banner
        THEN LET banner == draw_banner(total_width, banner_height)
                 total_height == board.size[2] + meta_sheet.size[2]
                                 + banner.size[2]
             IN  [size |-> <<total_width + 2 * hp, total_height + 2 * vp>>,
                  pastes |-> << Paste(meta_sheet, <<hp, vp>>),
                                Paste(board, <<hp, vp>>),
                                Paste(banner,
                                      <<hp, vp + meta_sheet.size[2]
                                            + board.size[2]>>) >>]
        ELSE LET total_height == board.size[2] + meta_sheet.size[2]
             IN  [size |-> <<total_width + 2 * hp, total_height + 2 * vp>>,
                  pastes |-> << Paste(meta_sheet, <<hp, vp>>),
                                Paste(board, <<hp, vp>>) >>]

\* storyboard(padding, include_banner, ...): the size of the assembled canvas
\* and the pastes made on it, in order; grid_size, sheet_height and
\* banner_height are the sizes that the three drawing methods come back with
storyboard(padding, include_banner, grid_size, sheet_height, banner_height) ==
    LET board == draw_storyboard(grid_size)
        total_width == board.size[1]
        meta_sheet == draw_meta_sheet(total_width, sheet_height)
        hp == padding[1]
        vp == padding[2]
    IN  IF include_banner
        THEN LET banner == draw_banner(total_width, banner_height)
                 total_height == board.size[2] + meta_sheet.size[2]
                                 + banner.size[2]
             IN  [size |-> <<total_width + 2 * hp, total_height + 2 * vp>>,
                  pastes |-> << Paste(meta_sheet, <<hp, vp>>),
                                Paste(board, <<hp, vp + meta_sheet.size[2]>>),
                                Paste(banner,
                                      <<hp, vp + meta_sheet.size[2]
                                            + board.size[2]>>) >>]
        ELSE LET total_height == board.size[2] + meta_sheet.size[2]
             IN  [size |-> <<total_width + 2 * hp, total_height + 2 * vp>>,
                  pastes |-> << Paste(meta_sheet, <<hp, vp>>),
                                Paste(board,
                                      <<hp, vp + meta_sheet.size[2]>>) >>]

\* the arguments of one call and the sizes of the sections drawn for it
BoardInputs ==
    [padding : (0..MaxPadding) \X (0..MaxPadding),
     include_banner : BOOLEAN,
     grid_size : (1..MaxWidth) \X (1..MaxHeight),
     sheet_height : 1..MaxHeight,
     banner_height : 1..MaxHeight]

NoCanvas == [size |-> <<0, 0>>, pastes |-> <<>>]

InitBoard ==
    /\ Pinned
    /\ meta = "idle"
    /\ cli = "idle"
    /\ \E a \in BoardInputs :
           call = [fn |-> "storyboard", arg |-> a, called |-> FALSE,
                   res |-> NoCanvas]

CallStoryboard ==
    /\ ~call.called
    /\ call' = [call EXCEPT
                   !.called = TRUE,
                   !.res = storyboard(call.arg.padding,
                                      call.arg.include_banner,
                                      call.arg.grid_size,
                                      call.arg.sheet_height,
                                      call.arg.banner_height)]
    /\ UNCHANGED <<video, frames, failed_idx, last, tile_call, thumb_call,
                   meta, cli>>

NextBoard == CallStoryboard

SpecBoard == InitBoard /\ [][NextBoard]_vars

\* the pixels that a paste covers
SB_Area(p) ==
    (p.at[1] .. (p.at[1] + p.size[1] - 1))
    \X (p.at[2] .. (p.at[2] + p.size[2] - 1))

\* the sections that are included in the call
SB_Included ==
    IF call.arg.include_banner THEN <<"meta_sheet", "storyboard", "banner">>
    ELSE <<"meta_sheet", "storyboard">>

\* C24: storyboard() pastes the metadata sheet at (hp, vp), the grid at
\* (hp, vp + sheet height) and, only when include_banner, the banner at
\* (hp, vp + sheet height + grid height); no two sections overlap; the canvas
\* is grid width + 2*hp wide and as high as the included sections together
\* + 2*vp.
C24_SectionsStacked ==
    call.called =>
        LET hp == call.arg.padding[1]
            vp == call.arg.padding[2]
            gw == call.arg.grid_size[1]
            gh == call.arg.grid_size[2]
            sh == call.arg.sheet_height
            bh == call.arg.banner_height
            ps == call.res.pastes
        IN  /\ [i \in 1..Len(ps) |-> ps[i].image] = SB_Included
            /\ ps[1].at = <<hp, vp>>
            /\ ps[1].size = <<gw, sh>>
            /\ ps[2].at = <<hp, vp + sh>>
            /\ ps[2].size = <<gw, gh>>
            /\ call.arg.include_banner =>
                   /\ ps[3].at = <<hp, vp + sh + gh>>
                   /\ ps[3].size = <<gw, bh>>
            /\ \A i, j \in 1..Len(ps) :
                   i # j => SB_Area(ps[i]) \cap SB_Area(ps[j]) = {}
            /\ call.res.size[1] = gw + 2 * hp
            /\ call.res.size[2] =
                   sh + gh + (IF call.arg.include_banner THEN bh ELSE 0)
                   + 2 * vp

\* a padded storyboard with a banner, the three sections of different heights
C24_Witness ==
    /\ call.called
    /\ call.arg.include_banner
    /\ call.arg.padding = <<1, 2>>
    /\ call.arg.grid_size[2] = 2
    /\ call.arg.sheet_height = 1
    /\ Len(call.res.pastes) = 3
    /\ call.res.pastes[3].at = <<1, 5>>


----------------------------------------------------------------------------
(* The order of the steps of Video.__init__, checked under SpecVideo *)

\* the positions of a step in the construction's list of steps
VC_At(step) == {i \in 1..Len(meta.steps) : meta.steps[i] = step}

\* the ffprobe invocations of the construction, in order
VC_Probes ==
    SelectSeq(meta.steps, LAMBDA e : e \in {"ffprobe path", "ffprobe head"})

\* C26: a construction on a missing path fails (OSError, the spec's NotFound)
\* without any ffprobe invocation; a successful construction invokes ffprobe
\* exactly twice, on the path and then on the first megabyte, and builds the
\* stream records after both; a nonzero exit of the first invocation ends the
\* construction without a second invocation; no step is taken twice.
C26_ConstructionSequential ==
    meta.phase \in {"built", "failed"} =>
        /\ meta.probes = Len(VC_Probes)
        /\ \A i, j \in 1..Len(meta.steps) :
               meta.steps[i] = meta.steps[j] => i = j
        /\ ~meta.env.path_exists =>
               /\ meta.phase = "failed"
               /\ meta.exc = "OSError"
               /\ VC_Probes = <<>>
        /\ meta.phase = "built" =>
               /\ VC_Probes = <<"ffprobe path", "ffprobe head">>
               /\ \A i \in VC_At("extract streams"), j \in 1..Len(meta.steps) :
                      meta.steps[j] \in {"ffprobe path", "ffprobe head"}
                          => j < i
        /\ (meta.env.path_exists /\ meta.env.returncode # 0) =>
               /\ meta.phase = "failed"
               /\ VC_Probes = <<"ffprobe path">>
               /\ VC_At("extract streams") = {}
               /\ meta.v = NoVideo
        /\ (meta.env.path_exists /\ meta.env.returncode = 0
                /\ meta.env.parsable) => meta.phase = "built"
        /\ VC_At("extract streams") = {} => meta.v.streams = <<>>

\* a Video built from a probe that reports two streams or more
C26_Witness ==
    /\ meta.phase = "built"
    /\ meta.op = "__init__"
    /\ meta.probes = 2
    /\ Len(meta.v.streams) >= 2
    /\ VC_At("extract streams") # {}

====
